---- MODULE Spec2Model ----
(***************************************************************************)
(* Model of the Lium SDK (Datura-ai/lium-sdk): the retrying HTTP           *)
(* transport, the SSH session handling of the remote operations and the    *)
(* fan-out execution over a bounded worker pool.                           *)
(*                                                                         *)
(* The repository holds two implementations of the same client:            *)
(*   "sdk"  : src/lium_sdk.py           (Lium._request under with_retry)   *)
(*   "orig" : src/lium_sdk_original.py  (Lium._make_request)               *)
(* The variable impl says which of the two a behaviour is about.           *)
(*                                                                         *)
(* lium_sdk_original.py uses the module-level names logger,                *)
(* ThreadPoolExecutor, Generator and configparser without importing them.  *)
(* The model reads them as the standard-library objects of those names     *)
(* (a logging call has no effect on the state modelled here).              *)
(*                                                                         *)
(* The specifications share the variables; each keeps the variables of     *)
(* the others at their idle values:                                        *)
(*   TransportSpec : one transport request, attempt by attempt             *)
(*   SshSpec       : exec / scp / upload / download called in sequence     *)
(*   ExecAllSpec   : one exec_all batch over the worker pool               *)
(*   StreamSpec    : one remote operation, stream_exec included, with the  *)
(*                   generator's loop step by step (StreamFairSpec: the    *)
(*                   same under fair scheduling of the generator)          *)
(*   CacheSpec     : ps and _resolve_pod run by two threads of one client  *)
(*   RetrieveSpec  : one Pods.retrieve or Pods.create of the celium client *)
(*                   (src/celium/resources/pods/pods.py, impl = "celium")  *)
(*   UpSpec        : one Lium.up                                           *)
(*   WaitSpec      : one Lium.wait_ready / wait_for_pod_ready              *)
(*   DownSpec      : one Lium.down or Pods.delete                          *)
(*   PollingSpec   : one of wait_ready, Pods.retrieve and down             *)
(*   HelperSpec    : one input of a pure helper (the derived properties of *)
(*                   PodInfo, generate_huid, extract_gpu_type, and the     *)
(*                   endpoints parsed for exec and for rsync)              *)
(*   UpRentSpec    : the rent request of one Lium.up over the transport    *)
(*   RetrieveFairSpec : RetrieveSpec under fair scheduling                 *)
(*   TemplateSpec  : one Templates.retrieve of the celium client           *)
(*   EasyDeploySpec: one Pods.easy_deploy of the celium client             *)
(*                                                                         *)
(* Time is counted in ticks of half a second, the resolution of the        *)
(* smaller of the two jitter ranges.                                       *)
(***************************************************************************)
EXTENDS Integers, Sequences, FiniteSets, TLC

VARIABLES
    impl,        \* "sdk", "orig" or "celium": the client under execution
    \* ---- transport: one logical request (retry/backoff state) ----
    t_pc,        \* "attempt" | "sleep" | "returned" | "raised"
    attempt,     \* loop variable of `for attempt in range(max_attempts)`
    history,     \* responses of the HTTP attempts made so far, in order
    sleeps,      \* arguments of the time.sleep calls made so far, in ticks
    raised,      \* exception class the call raised, "none" otherwise
    returned,    \* "response" once the call returned a response, "None"
                 \* once the wrapper fell off its loop, "none" otherwise
    response,    \* status of the response returned, NoResponse otherwise
    \* ---- client state and SSH sessions ----
    ssh_key_path,  \* config.ssh_key_path: "None", "ok" (a loadable private
                   \* key) or "bad" (a path no key type loads)
    pods_cache,    \* Lium._pods_cache of lium_sdk.py: key -> PodInfo
    calls,         \* the remote operations begun so far, one record each
    open,          \* calls whose paramiko.SSHClient is connected
    sftp,          \* calls whose SFTP channel is open
    \* ---- one exec_all batch ----
    ea_pc,         \* "none" | "call" | "running" | "returned" | "raised"
    pods,          \* the pods argument
    max_workers,   \* the max_workers argument
    order,         \* indices of the finished workers, in completion order
    results,       \* the list exec_all returned
    \* ---- the channel of one stream_exec ----
    channel,       \* call -> its paramiko channel: closed flag and the
                   \* chunks received and not yet read, per stream
    produced,      \* call -> chunks its remote command has written so far
    yielded,       \* call -> types of the chunks its generator has yielded
    \* ---- threads sharing one client (ps and _resolve_pod) ----
    th,            \* per thread: its operation, position and locals
    \* ---- one Pods.retrieve of the celium client ----
    r_pc,          \* "none" | "first" | "loop" | "sleep" | "returned" | "raised"
    wait_until_running,  \* the argument of that name
    timeout,       \* the timeout argument, in seconds
    elapsed_time,  \* the local of that name
    r_pod,         \* the local `pod`: NonePod until a poll is parsed
    polls,         \* statuses the server answered the GET requests with
    slept,         \* number of time.sleep(5) calls made
    rent,          \* the rent request of Pods.create: "none" (plain
                   \* retrieve), "pending", "ok" or "raised"
    \* ---- lifecycle calls and pure functions, one record of locals each ----
    up,            \* one Lium.up
    wr,            \* one Lium.wait_ready / wait_for_pod_ready
    dn,            \* one Lium.down / Pods.delete
    fn,            \* one call of a pure helper: its input and its result
    \* ---- the templates of the celium client, one record of locals each ----
    tr,            \* one Templates.retrieve
    ed             \* one Pods.easy_deploy

t_vars == <<t_pc, attempt, history, sleeps, raised, returned, response>>

s_vars == <<ssh_key_path, pods_cache, calls, open, sftp>>

ea_vars == <<ea_pc, pods, max_workers, order, results>>

st_vars == <<channel, produced, yielded>>

r_vars == <<r_pc, wait_until_running, timeout, elapsed_time, r_pod, polls,
           slept, rent>>

l_vars == <<up, wr, dn, fn>>
c_vars == <<tr, ed>>

\* The variables the transport, the sessions and exec_all leave alone.
o_vars == <<st_vars, th, r_vars, l_vars, c_vars>>

vars == <<impl, t_vars, s_vars, ea_vars, o_vars>>

Impls == {"sdk", "orig"}

Min(a, b) == IF a <= b THEN a ELSE b

\* No request in progress (the state of the transport in the specifications
\* of the remote operations, which take a request by its outcome).
TransportIdle ==
    /\ t_pc = "none"
    /\ attempt = 0
    /\ history = << >>
    /\ sleeps = << >>
    /\ raised = "none"
    /\ returned = "none"
    /\ response = 0

\* A client that has run no remote operation.
SessionsIdle ==
    /\ ssh_key_path = "None"
    /\ pods_cache = << >>
    /\ calls = << >>
    /\ open = {}
    /\ sftp = {}

\* No exec_all batch.
ExecAllIdle ==
    /\ ea_pc = "none"
    /\ pods = << >>
    /\ max_workers = 0
    /\ order = << >>
    /\ results = << >>

\* No stream_exec has run its command: channel, produced and yielded map the
\* calls that have one to their channel.
StreamIdle ==
    /\ channel = << >>
    /\ produced = << >>
    /\ yielded = << >>

\* No thread is using the client's resolver.
ThreadsIdle == th = << >>

\* `pod = None` in Pods.retrieve, and the status of such a value.
NonePod == [status |-> "None", poll |-> 0]

\* No Pods.retrieve.
RetrieveIdle ==
    /\ r_pc = "none"
    /\ wait_until_running = FALSE
    /\ timeout = 0
    /\ elapsed_time = 0
    /\ r_pod = NonePod
    /\ polls = << >>
    /\ slept = 0
    /\ rent = "none"

\* The locals of a call that has not been made.
NoCall == [pc |-> "none"]

\* No lifecycle call and no helper call.
LifecycleIdle ==
    /\ up = NoCall
    /\ wr = NoCall
    /\ dn = NoCall
    /\ fn = NoCall
    /\ tr = NoCall
    /\ ed = NoCall

----------------------------------------------------------------------------
(* Transport                                                               *)

\* The outcome of requests.request when it raises a
\* requests.RequestException (connection failure, timeout) instead of
\* returning a response; also the value of response while there is none.
NoResponse == 0

\* The server's answers to one HTTP attempt: a status code or NoResponse.
Statuses == {200, 400, 401, 404, 422, 429, 500, 599, 600}
ServerResponses == Statuses \cup {NoResponse}

\* requests.Response.ok: the status is below 400.
ok(r) == r # NoResponse /\ r < 400

\* max_attempts=3 of with_retry, max_retries = 6 of _make_request.
max_attempts(i) == IF i = "sdk" THEN 3 ELSE 6

\* delay=1.0 of with_retry, base_delay = 1.0 of _make_request, in ticks.
base_delay(i) == 2

\* random.uniform(0, 0.5) of with_retry, random.uniform(0, 1) of
\* _make_request, in ticks: the ends of the range and the values between.
Jitter(i) == IF i = "sdk" THEN 0..1 ELSE 0..2

\* The exception a response that is not ok raises inside the try block.
sdk_status_error(r) ==
    IF r = 401 THEN "LiumAuthError"
    ELSE IF r = 429 THEN "LiumRateLimitError"
    ELSE IF 500 <= r /\ r < 600 THEN "LiumServerError"
    ELSE "LiumError"

status_errors == [s \in {401, 400, 422, 429} |->
    CASE s = 401 -> "LiumAuthenticationError"
      [] s = 400 -> "LiumValidationError"
      [] s = 422 -> "LiumValidationError"
      [] s = 429 -> "LiumRateLimitError"]

orig_status_error(r) ==
    IF r \in DOMAIN status_errors THEN status_errors[r]
    ELSE IF 500 <= r /\ r < 600 THEN "LiumServerError"
    ELSE "LiumAPIError"

\* The exception of one failed attempt, as the except clauses see it.
attempt_error(i, r) ==
    IF r = NoResponse THEN "RequestException"
    ELSE IF i = "sdk" THEN sdk_status_error(r) ELSE orig_status_error(r)

\* except (LiumRateLimitError, LiumServerError, requests.RequestException)
retryable_mut(i, e) == TRUE
retryable_errors(i, e) ==
    e \in {"LiumRateLimitError", "LiumServerError", "RequestException"}

\* if attempt == max_attempts - 1: raise
last_attempt_mut(i, a) == a = max_attempts(i)
last_attempt(i, a) == a = max_attempts(i) - 1

\* What the handler raises on the last attempt: with_retry re-raises the
\* exception as it is; _make_request wraps a RequestException in LiumAPIError.
reraise(i, e) ==
    IF i = "orig" /\ e = "RequestException" THEN "LiumAPIError" ELSE e

\* delay * (2 ** attempt) + random.uniform(0, J)
delay_mut(i, a, j) == base_delay(i) + j
delay(i, a, j) == base_delay(i) * (2 ^ a) + j

TransportInit ==
    /\ impl \in Impls
    /\ LifecycleIdle
    /\ t_pc = "attempt"
    /\ attempt = 0
    /\ history = << >>
    /\ sleeps = << >>
    /\ raised = "none"
    /\ returned = "none"
    /\ response = NoResponse
    /\ SessionsIdle
    /\ ExecAllIdle
    /\ StreamIdle
    /\ ThreadsIdle
    /\ RetrieveIdle

\* One pass of the try block: requests.request, the status mapping and the
\* except clauses up to the decision between raising and sleeping.
HttpAttempt ==
    /\ t_pc = "attempt"
    /\ \E r \in ServerResponses :
        /\ history' = Append(history, r)
        /\ IF ok(r)
           THEN /\ t_pc' = "returned"
                /\ returned' = "response"
                /\ response' = r
                /\ UNCHANGED raised
           ELSE LET e == attempt_error(impl, r)
                IN  IF retryable_errors(impl, e) /\ ~last_attempt(impl, attempt)
                    THEN /\ t_pc' = "sleep"
                         /\ UNCHANGED <<raised, returned, response>>
                    ELSE /\ t_pc' = "raised"
                         /\ raised' = IF retryable_errors(impl, e)
                                      THEN reraise(impl, e) ELSE e
                         /\ UNCHANGED <<returned, response>>
    /\ UNCHANGED <<impl, attempt, sleeps, s_vars, ea_vars, o_vars>>

\* time.sleep(delay) in the handler, then the next iteration of the for
\* loop.  A loop that runs out of iterations falls through: with_retry's
\* wrapper then returns None, _make_request raises LiumAPIError.
BackoffSleep ==
    /\ t_pc = "sleep"
    /\ \E j \in Jitter(impl) :
        sleeps' = Append(sleeps, delay(impl, attempt, j))
    /\ attempt' = attempt + 1
    /\ IF attempt + 1 < max_attempts(impl)
       THEN /\ t_pc' = "attempt"
            /\ UNCHANGED <<raised, returned, response>>
       ELSE IF impl = "sdk"
            THEN /\ t_pc' = "returned"
                 /\ returned' = "None"
                 /\ UNCHANGED <<raised, response>>
            ELSE /\ t_pc' = "raised"
                 /\ raised' = "LiumAPIError"
                 /\ UNCHANGED <<returned, response>>
    /\ UNCHANGED <<impl, history, s_vars, ea_vars, o_vars>>

TransportNext == HttpAttempt \/ BackoffSleep

TransportSpec == TransportInit /\ [][TransportNext]_vars

----------------------------------------------------------------------------
(* Properties of the transport                                             *)

Last(s) == s[Len(s)]

\* A response the retry policy is said to retry: 429, 5xx, connection failure.
RetryableResponse(r) == r = NoResponse \/ r = 429 \/ (500 <= r /\ r < 600)

\* A response with a non-success status that is not retried.
FatalResponse(r) == r # NoResponse /\ ~ok(r) /\ ~RetryableResponse(r)

Terminated == t_pc \in {"returned", "raised"}

\* The classes under which the failure of response r may surface: its own
\* class, or the base API error when a connection failure is wrapped.
SurfacesAs(i, r) ==
    {attempt_error(i, r)} \cup
    (IF r = NoResponse THEN {IF i = "sdk" THEN "LiumError" ELSE "LiumAPIError"}
     ELSE {})

NonDecreasing(s) == \A k \in 1..(Len(s) - 1) : s[k] <= s[k + 1]

C2_FatalStatusNotRetried ==
    \A k \in 1..Len(history) :
        FatalResponse(history[k])
            => /\ k = Len(history)
               /\ t_pc = "raised"
               /\ Len(sleeps) = k - 1

C2_Witness ==
    /\ Len(history) = 1
    /\ history[1] \in {400, 401, 404, 422, 600}
    /\ t_pc = "raised"
    /\ sleeps = << >>

ThreeRateLimits == Len(history) >= 3 /\ \A k \in 1..3 : history[k] = 429

J(i) == CHOOSE j \in Jitter(i) : \A m \in Jitter(i) : m <= j

\* C31: the k-th retry sleep (k from 0) lasts between base_delay * 2^k and
\* base_delay * 2^k + J; successive sleeps never decrease; exactly one sleep
\* separates two consecutive attempts, and none follows a successful attempt
\* or the final failing one.
C31_BackoffBounds ==
    /\ \A k \in 1..Len(sleeps) :
        /\ base_delay(impl) * (2 ^ (k - 1)) <= sleeps[k]
        /\ sleeps[k] <= base_delay(impl) * (2 ^ (k - 1)) + J(impl)
    /\ NonDecreasing(sleeps)
    /\ t_pc = "attempt" => Len(sleeps) = Len(history)
    /\ t_pc = "sleep" => Len(sleeps) = Len(history) - 1
    /\ Terminated => Len(sleeps) = Len(history) - 1

\* Three sleeps of _make_request, the first with the largest jitter and the
\* second with none, before a success.
C31_Witness ==
    /\ impl = "orig"
    /\ t_pc = "returned"
    /\ sleeps = <<4, 4, 8>>
    /\ Last(history) = 200

\* The kind of error a class of either implementation stands for.
ErrorKind(cls) ==
    CASE cls \in {"LiumAuthError", "LiumAuthenticationError"} -> "Authentication"
      [] cls = "LiumValidationError" -> "Validation"
      [] cls = "LiumRateLimitError" -> "RateLimit"
      [] cls = "LiumServerError" -> "Server"
      [] cls \in {"LiumError", "LiumAPIError"} -> "Unclassified"
      [] OTHER -> "NotAnAPIError"

StatusKind(r) ==
    IF r = 401 THEN "Authentication"
    ELSE IF r \in {400, 422} THEN "Validation"
    ELSE IF r = 429 THEN "RateLimit"
    ELSE IF 500 <= r /\ r < 600 THEN "Server"
    ELSE "Unclassified"

\* C4: a call that ends on a non-success status raises the error class of
\* that status: 401 authentication, 400 and 422 validation, 429 rate limit,
\* 500..599 server, any other status the unclassified base API error.
C4_StatusClassification ==
    (t_pc = "raised" /\ Len(history) > 0 /\ Last(history) # NoResponse)
        => ErrorKind(raised) = StatusKind(Last(history))

\* C5: when the attempts are exhausted the error raised is the one of the
\* last attempt, and a connection failure is raised as a typed API error,
\* never as the raw connection exception.
C5_LastErrorWrapped ==
    (t_pc = "raised" /\ Len(history) = max_attempts(impl))
        => /\ raised \in SurfacesAs(impl, Last(history))
           /\ Last(history) = NoResponse => ErrorKind(raised) # "NotAnAPIError"

----------------------------------------------------------------------------
(* Pods, the pod cache and pod resolution                                  *)

\* A PodInfo value, reduced to the fields the remote operations read.
\* ssh_cmd is "None" while the pod has no SSH connection command.
PodInfo(id, name, huid, ssh_cmd) ==
    [kind |-> "PodInfo", id |-> id, name |-> name, huid |-> huid,
     ssh_cmd |-> ssh_cmd]

\* A string identifier given in place of a PodInfo; id holds the string.
Str(x) == [kind |-> "str", id |-> x, name |-> "", huid |-> "", ssh_cmd |-> ""]

\* The pods the server lists on GET /pods, in the order of the response:
\* one reachable pod and one that has no SSH connection command yet.
Fleet ==
    << PodInfo("p1", "n1", "h1", "ssh root@10.0.0.1 -p 2222"),
       PodInfo("p2", "n2", "h2", "None") >>

\* The pod arguments callers pass: the display name of a listed pod, an
\* identifier no pod has, and the two PodInfo values.
PodInputs == {Str("n1"), Str("zz"), Fleet[1], Fleet[2]}

\* The cache Lium.ps builds from the pods fetched: first every id, then, pod
\* by pod, the name and the huid; a later assignment replaces an earlier one.
ps_cache(list) ==
    LET n == Len(list)
        assigned == [j \in 1..(3 * n) |->
            IF j <= n THEN <<list[j].id, list[j]>>
            ELSE LET q == ((j - n - 1) \div 2) + 1
                 IN  IF (j - n) % 2 = 1 THEN <<list[q].name, list[q]>>
                     ELSE <<list[q].huid, list[q]>>]
        keys == {assigned[j][1] : j \in 1..(3 * n)}
        last(k) == CHOOSE j \in 1..(3 * n) :
            /\ assigned[j][1] = k
            /\ \A m \in 1..(3 * n) : assigned[m][1] = k => m <= j
    IN  [k \in keys |-> assigned[last(k)][2]]

\* The first pod of the list that a string identifier names.
first_match_mut(list, x) ==
    LET hits == {j \in 1..Len(list) : list[j].id = x}
    IN  IF hits = {} THEN 0
        ELSE CHOOSE j \in hits : \A m \in hits : j <= m
first_match(list, x) ==
    LET hits == {j \in 1..Len(list) :
                    list[j].id = x \/ list[j].name = x \/ list[j].huid = x}
    IN  IF hits = {} THEN 0
        ELSE CHOOSE j \in hits : \A m \in hits : j <= m

Resolved(pod, cache) == [ok |-> TRUE, pod |-> pod, err |-> "", cache |-> cache]
Unresolved(err, cache) ==
    [ok |-> FALSE, pod |-> Str(""), err |-> err, cache |-> cache]

\* Lium._resolve_pod of lium_sdk.py.  http is the outcome of the transport
\* request of ps(), should one be made: "ok" or "error".
sdk_resolve_pod_mut(pod, cache, http) ==
    IF pod.kind = "PodInfo" THEN Resolved(pod, cache)
    ELSE IF pod.id \in DOMAIN cache THEN Resolved(cache[pod.id], cache)
    ELSE IF http = "error" THEN Unresolved("API error", cache)
    ELSE LET j == first_match(Fleet, pod.id)
         IN  IF j = 0 THEN Unresolved("Pod not found", cache)
             ELSE Resolved(Fleet[j], cache)
sdk_resolve_pod(pod, cache, http) ==
    IF pod.kind = "PodInfo" THEN Resolved(pod, cache)
    ELSE IF pod.id \in DOMAIN cache THEN Resolved(cache[pod.id], cache)
    ELSE IF http = "error" THEN Unresolved("API error", cache)
    ELSE LET j == first_match(Fleet, pod.id)
         IN  IF j = 0 THEN Unresolved("Pod not found", ps_cache(Fleet))
             ELSE Resolved(Fleet[j], ps_cache(Fleet))

\* Lium._resolve_pod of lium_sdk_original.py: no cache, ps() on every string.
orig_resolve_pod(pod, cache, http) ==
    IF pod.kind = "PodInfo" THEN Resolved(pod, cache)
    ELSE IF http = "error" THEN Unresolved("API error", cache)
    ELSE LET j == first_match(Fleet, pod.id)
         IN  IF j = 0 THEN Unresolved("Pod not found", cache)
             ELSE Resolved(Fleet[j], cache)

\* `not pod_info.ssh_cmd`
no_ssh_cmd_mut(pod) == FALSE
no_ssh_cmd(pod) == pod.ssh_cmd \in {"None", ""}

\* Everything ssh_connection does before client.connect, in the order of
\* lium_sdk.py: resolve the pod, require its SSH command, require and load
\* the private key.
sdk_prepare(pod, cache, key, http) ==
    LET r == sdk_resolve_pod(pod, cache, http)
    IN  IF ~r.ok THEN r
        ELSE IF no_ssh_cmd(r.pod) THEN Unresolved("No SSH for pod", r.cache)
        ELSE IF key = "None" THEN Unresolved("No SSH key configured", r.cache)
        ELSE IF key = "bad" THEN Unresolved("Could not load SSH key", r.cache)
        ELSE r

\* Lium._prepare_ssh_client of lium_sdk_original.py: the key first, then
\* _get_ssh_connection_info (resolve the pod, require its SSH command).
orig_prepare(pod, cache, key, http) ==
    IF key = "None" THEN Unresolved("SSH private key not found", cache)
    ELSE IF key = "bad" THEN Unresolved("Could not load SSH private key", cache)
    ELSE LET r == orig_resolve_pod(pod, cache, http)
         IN  IF ~r.ok THEN r
             ELSE IF no_ssh_cmd(r.pod)
                  THEN Unresolved("Pod has no SSH connection available", r.cache)
                  ELSE r

prepare(i, pod, cache, key, http) ==
    IF i = "sdk" THEN sdk_prepare(pod, cache, key, http)
    ELSE orig_prepare(pod, cache, key, http)

----------------------------------------------------------------------------
(* Remote operations over an SSH session                                   *)

\* What a call produced: nothing yet, the record exec builds, the None that
\* scp and download return, or the exception that left the call.
NoOut ==
    [kind |-> "none", exit_code |-> 0, stdout |-> "", stderr |-> "",
     success |-> FALSE, err |-> ""]

\* `"success": exit_code == 0` in the record exec returns.
success_mut(exit_code) == exit_code >= 0
success(exit_code) == exit_code = 0

\* The record exec returns for a command that ended with exit code `code`
\* on pod `target` (its output stands for what that pod printed).
ExecResult(code, target) ==
    [kind |-> "result", exit_code |-> code, stdout |-> target.id,
     stderr |-> "", success |-> success(code), err |-> ""]
NoneOut ==
    [kind |-> "None", exit_code |-> 0, stdout |-> "", stderr |-> "",
     success |-> FALSE, err |-> ""]
Error(e) ==
    [kind |-> "error", exit_code |-> 0, stdout |-> "", stderr |-> "",
     success |-> FALSE, err |-> e]

\* The exit codes a remote command ends with.
ExitCodes == {0, 1}

\* A call as it is entered; pc is its position:
\*   "queued" (submitted to the pool), "started", "ready" (about to connect),
\*   "connected", "sftp" (SFTP channel open), "closing" (in the finally
\*   clause of ssh_connection), "returned", "raised".
NewCallRecord(op, pod, pc) ==
    [op |-> op, pod |-> pod, pc |-> pc, target |-> Str(""), out |-> NoOut]

Finished(c) == calls[c].pc \in {"returned", "raised"}

\* The operations of each client: lium_sdk_original.py has exec and an scp
\* whose body is `pass`, and neither upload nor download.
Ops(i) == IF i = "sdk" THEN {"exec", "scp", "upload", "download"}
          ELSE {"exec", "scp"}

\* client.close() in the finally clause of ssh_connection: whatever the body
\* produced, the session of call c is closed.
client_close_mut(sessions, c, out) ==
    IF out.kind = "error" THEN sessions ELSE sessions \ {c}
client_close(sessions, c, out) == sessions \ {c}

\* scp of lium_sdk_original.py: `pass`.
ScpStub(c) ==
    /\ impl = "orig"
    /\ calls[c].op = "scp"
    /\ calls[c].pc = "started"
    /\ calls' = [calls EXCEPT ![c].pc = "returned", ![c].out = NoneOut]
    /\ order' = IF ea_pc = "running" THEN Append(order, c) ELSE order
    /\ UNCHANGED <<ssh_key_path, pods_cache, open, sftp>>
    /\ UNCHANGED <<impl, t_vars, ea_pc, pods, max_workers, results, o_vars>>

\* ssh_connection up to client.connect.
Prepare(c) ==
    /\ calls[c].pc = "started"
    /\ ~(impl = "orig" /\ calls[c].op = "scp")
    /\ \E http \in {"ok", "error"} :
        LET r == prepare(impl, calls[c].pod, pods_cache, ssh_key_path, http)
        IN  /\ pods_cache' = r.cache
            /\ IF r.ok
               THEN /\ calls' = [calls EXCEPT ![c].pc = "ready",
                                              ![c].target = r.pod]
                    /\ UNCHANGED order
               ELSE /\ calls' = [calls EXCEPT ![c].pc = "raised",
                                              ![c].out = Error(r.err)]
                    /\ order' = IF ea_pc = "running" THEN Append(order, c)
                                ELSE order
    /\ UNCHANGED <<ssh_key_path, open, sftp>>
    /\ UNCHANGED <<impl, t_vars, ea_pc, pods, max_workers, results, o_vars>>

\* client.connect: the session is open once it returns; when it raises, the
\* call raises (the try of ssh_connection is not entered).
Connect(c) ==
    /\ calls[c].pc = "ready"
    /\ \/ /\ calls' = [calls EXCEPT ![c].pc = "connected"]
          /\ open' = open \cup {c}
          /\ UNCHANGED order
       \/ /\ calls' = [calls EXCEPT ![c].pc = "raised",
                                    ![c].out = Error("SSH connection failed")]
          /\ order' = IF ea_pc = "running" THEN Append(order, c) ELSE order
          /\ UNCHANGED open
    /\ UNCHANGED <<ssh_key_path, pods_cache, sftp>>
    /\ UNCHANGED <<impl, t_vars, ea_pc, pods, max_workers, results, o_vars>>

\* The body of exec: exec_command, recv_exit_status and the two reads; it
\* ends with the result record or with an exception of paramiko.
ExecCommand(c) ==
    /\ calls[c].op = "exec"
    /\ calls[c].pc = "connected"
    /\ \/ \E code \in ExitCodes :
            calls' = [calls EXCEPT ![c].pc = "closing",
                                   ![c].out = ExecResult(code, calls[c].target)]
       \/ calls' = [calls EXCEPT ![c].pc = "closing",
                                 ![c].out = Error("SSH command failed")]
    /\ UNCHANGED <<ssh_key_path, pods_cache, open, sftp, order>>
    /\ UNCHANGED <<impl, t_vars, ea_pc, pods, max_workers, results, o_vars>>

\* client.open_sftp() in scp and download.
OpenSftp(c) ==
    /\ calls[c].op \in {"scp", "upload", "download"}
    /\ calls[c].pc = "connected"
    /\ \/ /\ calls' = [calls EXCEPT ![c].pc = "sftp"]
          /\ sftp' = sftp \cup {c}
       \/ /\ calls' = [calls EXCEPT ![c].pc = "closing",
                                    ![c].out = Error("SFTP channel failed")]
          /\ UNCHANGED sftp
    /\ UNCHANGED <<ssh_key_path, pods_cache, open, order>>
    /\ UNCHANGED <<impl, t_vars, ea_pc, pods, max_workers, results, o_vars>>

\* sftp.put / sftp.get followed by sftp.close(); when the transfer raises,
\* sftp.close() is skipped and the channel stays open until the client closes.
Transfer(c) ==
    /\ calls[c].pc = "sftp"
    /\ \/ /\ calls' = [calls EXCEPT ![c].pc = "closing", ![c].out = NoneOut]
          /\ sftp' = sftp \ {c}
       \/ /\ calls' = [calls EXCEPT ![c].pc = "closing",
                                    ![c].out = Error("SFTP transfer failed")]
          /\ UNCHANGED sftp
    /\ UNCHANGED <<ssh_key_path, pods_cache, open, order>>
    /\ UNCHANGED <<impl, t_vars, ea_pc, pods, max_workers, results, o_vars>>

\* The finally clause of ssh_connection, then the return or the raise of the
\* call.  Closing the client closes its transport and the channels on it.
Close(c) ==
    /\ calls[c].pc = "closing"
    /\ open' = client_close(open, c, calls[c].out)
    /\ sftp' = sftp \ (open \ open')
    /\ calls' = [calls EXCEPT ![c].pc =
                    IF calls[c].out.kind = "error" THEN "raised" ELSE "returned"]
    /\ order' = IF ea_pc = "running" THEN Append(order, c) ELSE order
    /\ UNCHANGED <<ssh_key_path, pods_cache>>
    /\ UNCHANGED <<impl, t_vars, ea_pc, pods, max_workers, results, o_vars>>

----------------------------------------------------------------------------
(* Remote operations called one after the other by a single thread         *)

\* The number of calls of one behaviour.
MaxCalls == 2

KeyPaths == {"None", "ok", "bad"}

SshInit ==
    /\ impl \in Impls
    /\ LifecycleIdle
    /\ TransportIdle
    /\ ExecAllIdle
    /\ StreamIdle
    /\ ThreadsIdle
    /\ RetrieveIdle
    /\ ssh_key_path \in KeyPaths
    /\ pods_cache = << >>
    /\ calls = << >>
    /\ open = {}
    /\ sftp = {}

\* The caller begins exec, scp, upload or download once its previous call
\* has returned or raised.  upload calls scp with the same arguments.
BeginCall ==
    /\ Len(calls) < MaxCalls
    /\ \A c \in DOMAIN calls : Finished(c)
    /\ \E op \in Ops(impl), pod \in PodInputs :
        calls' = Append(calls, NewCallRecord(op, pod, "started"))
    /\ UNCHANGED <<ssh_key_path, pods_cache, open, sftp, order>>
    /\ UNCHANGED <<impl, t_vars, ea_pc, pods, max_workers, results, o_vars>>

SshNext ==
    \/ BeginCall
    \/ \E c \in DOMAIN calls : ScpStub(c)
    \/ \E c \in DOMAIN calls : Prepare(c)
    \/ \E c \in DOMAIN calls : Connect(c)
    \/ \E c \in DOMAIN calls : ExecCommand(c)
    \/ \E c \in DOMAIN calls : OpenSftp(c)
    \/ \E c \in DOMAIN calls : Transfer(c)
    \/ \E c \in DOMAIN calls : Close(c)

SshSpec == SshInit /\ [][SshNext]_vars

----------------------------------------------------------------------------
(* exec_all: the same command on many pods over a bounded worker pool      *)

\* The longest pods argument of a behaviour.
MaxPods == 3

\* max_workers=None, the default of exec_all in lium_sdk_original.py.
NoneWorkers == 0

\* The max_workers arguments tried: the default of each client (10 in
\* lium_sdk.py, None in lium_sdk_original.py) and two explicit bounds.
WorkerArgs(i) == IF i = "sdk" THEN {1, 2, 10} ELSE {1, 2, NoneWorkers}

\* The max_workers the ThreadPoolExecutor is built with.
pool_size_mut(i, mw, n) == n
pool_size(i, mw, n) ==
    IF i = "sdk" THEN Min(mw, n)
    ELSE IF mw = NoneWorkers THEN Min(32, n) ELSE mw

\* `pod.id if isinstance(pod, PodInfo) else pod`
pod_tag(pod) == IF pod.kind = "PodInfo" THEN Str(pod.id) ELSE pod

\* `except Exception`: no exception of exec leaves the worker function.
caught_mut(i, err) == FALSE
caught(i, err) == TRUE

\* The record a worker returns for its pod: exec_single of lium_sdk.py,
\* _exec_single_pod_safe of lium_sdk_original.py.
exec_single(i, pod, call) ==
    IF call.pc = "returned"
    THEN [stdout |-> call.out.stdout, stderr |-> call.out.stderr,
          exit_code |-> call.out.exit_code,
          success |-> call.out.success, pod |-> pod_tag(pod)]
    ELSE IF i = "sdk"
         THEN [pod |-> pod, error |-> call.out.err, success |-> FALSE]
         ELSE [pod |-> pod_tag(pod), stdout |-> "", stderr |-> call.out.err,
               exit_code |-> -1, success |-> FALSE]

\* list(executor.map(...)) and the loop over the futures: the records in the
\* order of submission, whatever the order of completion.
collect_mut(recs, done) == [k \in 1..Len(done) |-> recs[done[k]]]
collect(recs, done) == recs

Active == {c \in DOMAIN calls : calls[c].pc \notin {"queued", "returned", "raised"}}

PodLists == UNION {[1..n -> PodInputs] : n \in 0..MaxPods}

ExecAllInit ==
    /\ impl \in Impls
    /\ LifecycleIdle
    /\ TransportIdle
    /\ StreamIdle
    /\ ThreadsIdle
    /\ RetrieveIdle
    /\ ssh_key_path \in KeyPaths
    /\ pods_cache = << >>
    /\ calls = << >>
    /\ open = {}
    /\ sftp = {}
    /\ ea_pc = "call"
    /\ pods \in PodLists
    /\ max_workers \in WorkerArgs(impl)
    /\ order = << >>
    /\ results = << >>

\* Entry of exec_all: lium_sdk_original.py returns [] for no pods; otherwise
\* the pool is built (ThreadPoolExecutor raises ValueError when max_workers
\* is not positive) and one task per pod is submitted.
ExecAllEnter ==
    /\ ea_pc = "call"
    /\ IF impl = "orig" /\ pods = << >>
       THEN /\ ea_pc' = "returned"
            /\ UNCHANGED calls
       ELSE IF pool_size(impl, max_workers, Len(pods)) <= 0
            THEN /\ ea_pc' = "raised"
                 /\ UNCHANGED calls
            ELSE /\ ea_pc' = "running"
                 /\ calls' = [c \in 1..Len(pods) |->
                                NewCallRecord("exec", pods[c], "queued")]
    /\ UNCHANGED <<ssh_key_path, pods_cache, open, sftp, pods, max_workers,
                   order, results>>
    /\ UNCHANGED <<impl, t_vars, o_vars>>

\* A worker thread of the pool takes the oldest task of the queue; the pool
\* has at most pool_size threads.
Start(c) ==
    /\ ea_pc = "running"
    /\ calls[c].pc = "queued"
    /\ \A d \in 1..(c - 1) : calls[d].pc # "queued"
    /\ Cardinality(Active) < pool_size(impl, max_workers, Len(pods))
    /\ calls' = [calls EXCEPT ![c].pc = "started"]
    /\ UNCHANGED <<ssh_key_path, pods_cache, open, sftp, ea_pc, pods,
                   max_workers, order, results>>
    /\ UNCHANGED <<impl, t_vars, o_vars>>

\* Every task is done: exec_all returns the collected records, or raises the
\* exception that left a worker function.
Gather ==
    /\ ea_pc = "running"
    /\ \A c \in DOMAIN calls : Finished(c)
    /\ IF \E c \in DOMAIN calls :
            calls[c].pc = "raised" /\ ~caught(impl, calls[c].out.err)
       THEN /\ ea_pc' = "raised"
            /\ UNCHANGED results
       ELSE /\ ea_pc' = "returned"
            /\ results' = collect([c \in DOMAIN calls |->
                            exec_single(impl, pods[c], calls[c])], order)
    /\ UNCHANGED <<ssh_key_path, pods_cache, calls, open, sftp, pods,
                   max_workers, order>>
    /\ UNCHANGED <<impl, t_vars, o_vars>>

\* A worker takes a task, then runs exec on its pod step by step.
ExecAllNext ==
    \/ ExecAllEnter
    \/ \E c \in DOMAIN calls : Start(c)
    \/ \E c \in DOMAIN calls : Prepare(c)
    \/ \E c \in DOMAIN calls : Connect(c)
    \/ \E c \in DOMAIN calls : ExecCommand(c)
    \/ \E c \in DOMAIN calls : Close(c)
    \/ Gather

ExecAllSpec == ExecAllInit /\ [][ExecAllNext]_vars

----------------------------------------------------------------------------
(* stream_exec: a generator over the output of a remote command            *)

\* The channel exec_command returns: open, nothing received yet.
NoChannel == [closed |-> FALSE, out |-> 0, err |-> 0]

NoChunks == [out |-> 0, err |-> 0]

\* The chunks (reads of at most 4096 bytes) a remote command writes.
MaxChunks == 2

\* The calls of one behaviour of StreamSpec.
MaxStreamCalls == 1

\* The remote operations of a client, stream_exec included.
RemoteOps(i) == Ops(i) \cup {"stream_exec"}

\* The pods a remote operation is called with: those of PodInputs and the id
\* of the pod that has no SSH command.
RemoteInputs == PodInputs \cup {Str("p2")}

\* Positions of the generator inside its while loop: at the loop test, at
\* `if channel.recv_ready()`, at `if channel.recv_stderr_ready()`.
LoopPcs == {"while", "if_out", "if_err"}

Streaming(c) == calls[c].op = "stream_exec" /\ calls[c].pc \in LoopPcs

\* `not channel.closed or channel.recv_ready() or channel.recv_stderr_ready()`
\* The three reads are taken as one: closed is read first, and once it is
\* true no chunk arrives any more, so the later reads see the same channel.
loop_test_mut(ch) == ~ch.closed
loop_test(ch) == ~ch.closed \/ ch.out > 0 \/ ch.err > 0

\* client.exec_command(command, get_pty=True) at the first next() of the
\* generator: it returns the channel, or raises into the finally clause.
StreamOpen(c) ==
    /\ calls[c].op = "stream_exec"
    /\ calls[c].pc = "connected"
    /\ \/ /\ calls' = [calls EXCEPT ![c].pc = "while"]
          /\ channel' = (c :> NoChannel) @@ channel
          /\ produced' = (c :> NoChunks) @@ produced
          /\ yielded' = (c :> << >>) @@ yielded
       \/ /\ calls' = [calls EXCEPT ![c].pc = "closing",
                                    ![c].out = Error("SSH command failed")]
          /\ UNCHANGED st_vars
    /\ UNCHANGED <<impl, t_vars, ssh_key_path, pods_cache, open, sftp, ea_vars, l_vars, c_vars,
                   th, r_vars>>

\* The remote command writes a chunk to its stdout or to its stderr.
RemoteOutput(c) ==
    /\ Streaming(c)
    /\ ~channel[c].closed
    /\ produced[c].out + produced[c].err < MaxChunks
    /\ \/ /\ channel' = [channel EXCEPT ![c].out = @ + 1]
          /\ produced' = [produced EXCEPT ![c].out = @ + 1]
       \/ /\ channel' = [channel EXCEPT ![c].err = @ + 1]
          /\ produced' = [produced EXCEPT ![c].err = @ + 1]
    /\ UNCHANGED <<impl, t_vars, s_vars, ea_vars, l_vars, c_vars, yielded, th, r_vars>>

\* The remote command exits and the channel is closed; what was received
\* before stays readable.
RemoteExit(c) ==
    /\ Streaming(c)
    /\ ~channel[c].closed
    /\ channel' = [channel EXCEPT ![c].closed = TRUE]
    /\ UNCHANGED <<impl, t_vars, s_vars, ea_vars, l_vars, c_vars, produced, yielded, th, r_vars>>

\* The test of the while loop; when it fails the generator leaves the with
\* block and is exhausted.
StreamTest(c) ==
    /\ calls[c].op = "stream_exec"
    /\ calls[c].pc = "while"
    /\ calls' = IF loop_test(channel[c])
                THEN [calls EXCEPT ![c].pc = "if_out"]
                ELSE [calls EXCEPT ![c].pc = "closing", ![c].out = NoneOut]
    /\ UNCHANGED <<impl, t_vars, ssh_key_path, pods_cache, open, sftp, ea_vars,
                   o_vars>>

\* `if channel.recv_ready(): ... yield {"type": "stdout", ...}`; the
\* generator goes on when its consumer asks for the next item.
StreamReadOut(c) ==
    /\ calls[c].op = "stream_exec"
    /\ calls[c].pc = "if_out"
    /\ calls' = [calls EXCEPT ![c].pc = "if_err"]
    /\ IF channel[c].out > 0
       THEN /\ channel' = [channel EXCEPT ![c].out = @ - 1]
            /\ yielded' = [yielded EXCEPT ![c] = Append(@, "stdout")]
       ELSE UNCHANGED <<channel, yielded>>
    /\ UNCHANGED <<impl, t_vars, ssh_key_path, pods_cache, open, sftp, ea_vars, l_vars, c_vars,
                   produced, th, r_vars>>

\* `if channel.recv_stderr_ready(): ... yield {"type": "stderr", ...}`
StreamReadErr(c) ==
    /\ calls[c].op = "stream_exec"
    /\ calls[c].pc = "if_err"
    /\ calls' = [calls EXCEPT ![c].pc = "while"]
    /\ IF channel[c].err > 0
       THEN /\ channel' = [channel EXCEPT ![c].err = @ - 1]
            /\ yielded' = [yielded EXCEPT ![c] = Append(@, "stderr")]
       ELSE UNCHANGED <<channel, yielded>>
    /\ UNCHANGED <<impl, t_vars, ssh_key_path, pods_cache, open, sftp, ea_vars, l_vars, c_vars,
                   produced, th, r_vars>>

StreamInit ==
    /\ impl \in Impls
    /\ LifecycleIdle
    /\ TransportIdle
    /\ ExecAllIdle
    /\ StreamIdle
    /\ ThreadsIdle
    /\ RetrieveIdle
    /\ ssh_key_path \in KeyPaths
    /\ pods_cache = << >>
    /\ calls = << >>
    /\ open = {}
    /\ sftp = {}

\* The caller begins a remote operation; for stream_exec it then iterates
\* over the generator the call returned.
BeginRemote ==
    /\ Len(calls) < MaxStreamCalls
    /\ \A c \in DOMAIN calls : Finished(c)
    /\ \E op \in RemoteOps(impl), pod \in RemoteInputs :
        calls' = Append(calls, NewCallRecord(op, pod, "started"))
    /\ UNCHANGED <<ssh_key_path, pods_cache, open, sftp, order>>
    /\ UNCHANGED <<impl, t_vars, ea_pc, pods, max_workers, results, o_vars>>

StreamNext ==
    \/ BeginRemote
    \/ \E c \in DOMAIN calls : ScpStub(c)
    \/ \E c \in DOMAIN calls : Prepare(c)
    \/ \E c \in DOMAIN calls : Connect(c)
    \/ \E c \in DOMAIN calls : ExecCommand(c)
    \/ \E c \in DOMAIN calls : OpenSftp(c)
    \/ \E c \in DOMAIN calls : Transfer(c)
    \/ \E c \in DOMAIN calls : StreamOpen(c)
    \/ \E c \in DOMAIN calls : RemoteOutput(c)
    \/ \E c \in DOMAIN calls : RemoteExit(c)
    \/ \E c \in DOMAIN calls : StreamTest(c)
    \/ \E c \in DOMAIN calls : StreamReadOut(c)
    \/ \E c \in DOMAIN calls : StreamReadErr(c)
    \/ \E c \in DOMAIN calls : Close(c)

StreamSpec == StreamInit /\ [][StreamNext]_vars

\* The thread that iterates over the generator keeps running: each step of
\* the generator that can be taken is taken.
StreamFairSpec ==
    /\ StreamSpec
    /\ WF_vars(\E c \in DOMAIN calls : StreamTest(c))
    /\ WF_vars(\E c \in DOMAIN calls : StreamReadOut(c))
    /\ WF_vars(\E c \in DOMAIN calls : StreamReadErr(c))
    /\ WF_vars(\E c \in DOMAIN calls : Close(c))

----------------------------------------------------------------------------
(* ps and _resolve_pod on a client shared by two threads                   *)

\* The threads that use the client (the workers of one exec_all, or the
\* caller's own threads).
Threads == {1, 2}

\* The operations each thread runs, one after the other.
MaxOps == 2

\* A pod that has the display name of Fleet[1]: display names are given by
\* callers (pod_name of Lium.up) and need not differ from pod to pod.
Twin == PodInfo("p3", "n1", "h3", "ssh root@10.0.0.3 -p 2222")

\* What GET /pods answers with from one request to the next: the fleet, the
\* fleet after Fleet[2] has gone and Twin has come, no pod at all.
Listings == {Fleet, <<Fleet[1], Twin>>, << >>}

\* The arguments _resolve_pod is called with.
ResolveArgs == {Fleet[1], Str("n1"), Str("p2"), Str("zz")}

NoResult == [kind |-> "none", pod |-> Str(""), err |-> "", ident |-> ""]
PodResult(p) == [kind |-> "pod", pod |-> p, err |-> "", ident |-> ""]
ListResult == [kind |-> "list", pod |-> Str(""), err |-> "", ident |-> ""]
\* An exception; ident is the identifier its message names, if any.
Raised(e, x) == [kind |-> "error", pod |-> Str(""), err |-> e, ident |-> x]

\* A thread between two operations.  The fields after result record what
\* the operation has done so far: fetches counts its GET /pods requests,
\* touched says that it has read or written _pods_cache, missed that its
\* identifier was not a key of the cache, overlapped that another thread
\* wrote the cache between this operation's own first and last write.
IdleThread ==
    [op |-> "none", arg |-> Str(""), pc |-> "idle", fetched |-> << >>,
     i |-> 0, result |-> NoResult, fetches |-> 0, touched |-> FALSE,
     missed |-> FALSE, overlapped |-> FALSE, done |-> 0]

Ended(t) == th[t].pc \in {"returned", "raised"}

\* `isinstance(pod, PodInfo)`
is_pod_info_mut(p) == FALSE
is_pod_info(p) == p.kind = "PodInfo"

\* `{p.id: p for p in pods}`
id_cache_mut(list) == << >>
id_cache(list) ==
    [k \in {list[j].id : j \in DOMAIN list} |->
        list[CHOOSE j \in DOMAIN list :
                /\ list[j].id = k
                /\ \A m \in DOMAIN list : list[m].id = k => m <= j]]

\* `self._pods_cache[key] = p`
cache_set_mut(cache, key, p) == cache
cache_set(cache, key, p) ==
    [k \in DOMAIN cache \cup {key} |-> IF k = key THEN p ELSE cache[k]]

\* The end of an operation once ps() has returned list: ps returns it,
\* _resolve_pod returns the first pod its identifier names or raises
\* ValueError(f"Pod '{pod}' not found").
after_ps(rec, list) ==
    IF rec.op = "ps"
    THEN [rec EXCEPT !.pc = "returned", !.result = ListResult]
    ELSE LET j == first_match(list, rec.arg.id)
         IN  IF j = 0
             THEN [rec EXCEPT !.pc = "raised",
                              !.result = Raised("Pod not found", rec.arg.id)]
             ELSE [rec EXCEPT !.pc = "returned", !.result = PodResult(list[j])]

\* The other threads that are between the first and the last of their cache
\* writes see their refresh overlapped by a write of thread t.
overlap(t) ==
    [u \in Threads |->
        IF u # t /\ th[u].pc \in {"name", "huid"}
        THEN [th[u] EXCEPT !.overlapped = TRUE] ELSE th[u]]

CacheInit ==
    /\ impl \in Impls
    /\ LifecycleIdle
    /\ TransportIdle
    /\ ExecAllIdle
    /\ StreamIdle
    /\ RetrieveIdle
    /\ ssh_key_path = "None"
    /\ pods_cache = << >>
    /\ calls = << >>
    /\ open = {}
    /\ sftp = {}
    /\ th = [t \in Threads |-> IdleThread]

\* A thread calls ps().
BeginPs(t) ==
    /\ th[t].pc \in {"idle", "returned", "raised"}
    /\ th[t].done < MaxOps
    /\ th' = [th EXCEPT ![t] = [IdleThread EXCEPT !.op = "ps", !.pc = "fetch",
                                                  !.done = th[t].done + 1]]
    /\ UNCHANGED <<impl, t_vars, s_vars, ea_vars, l_vars, c_vars, st_vars, r_vars>>

\* A thread calls _resolve_pod: a PodInfo is returned as it is; a string is
\* looked up in the cache (lium_sdk.py) and, when it is not a key, or when
\* there is no cache (lium_sdk_original.py), ps() is called.
BeginResolve(t) ==
    /\ th[t].pc \in {"idle", "returned", "raised"}
    /\ th[t].done < MaxOps
    /\ \E x \in ResolveArgs :
        LET rec == [IdleThread EXCEPT !.op = "resolve", !.arg = x,
                                      !.done = th[t].done + 1]
        IN  th' = [th EXCEPT ![t] =
                IF is_pod_info(x)
                THEN [rec EXCEPT !.pc = "returned", !.result = PodResult(x)]
                ELSE IF impl = "orig"
                     THEN [rec EXCEPT !.pc = "fetch", !.missed = TRUE]
                     ELSE IF x.id \in DOMAIN pods_cache
                          THEN [rec EXCEPT !.pc = "hit", !.touched = TRUE]
                          ELSE [rec EXCEPT !.pc = "fetch", !.touched = TRUE,
                                           !.missed = TRUE]]
    /\ UNCHANGED <<impl, t_vars, s_vars, ea_vars, l_vars, c_vars, st_vars, r_vars>>

\* `return self._pods_cache[pod]`, a second read of the attribute: the
\* cache may have been replaced since the membership test (KeyError).
ResolveHit(t) ==
    /\ th[t].pc = "hit"
    /\ th' = [th EXCEPT ![t] =
            IF th[t].arg.id \in DOMAIN pods_cache
            THEN [@ EXCEPT !.pc = "returned",
                           !.result = PodResult(pods_cache[th[t].arg.id])]
            ELSE [@ EXCEPT !.pc = "raised",
                           !.result = Raised("KeyError", th[t].arg.id)]]
    /\ UNCHANGED <<impl, t_vars, s_vars, ea_vars, l_vars, c_vars, st_vars, r_vars>>

\* The GET /pods of ps(): the transport raises, or the pods of the response
\* are built.  ps of lium_sdk_original.py returns them without a cache.
Fetch_mut(t) ==
    /\ th[t].pc = "fetch"
    /\ \/ /\ th' = [th EXCEPT ![t] =
                [@ EXCEPT !.pc = "raised", !.fetches = @ + 1,
                          !.result = Raised("API error", "")]]
          /\ pods_cache' = << >>
       \/ /\ \E list \in Listings :
                LET rec == [th[t] EXCEPT !.fetched = list, !.fetches = @ + 1]
                IN  th' = [th EXCEPT ![t] =
                        IF impl = "orig" THEN after_ps(rec, list)
                        ELSE [rec EXCEPT !.pc = "assign"]]
          /\ UNCHANGED pods_cache
    /\ UNCHANGED <<impl, t_vars, ssh_key_path, calls, open, sftp, ea_vars,
                   l_vars, c_vars, st_vars, r_vars>>
Fetch(t) ==
    /\ th[t].pc = "fetch"
    /\ \/ th' = [th EXCEPT ![t] =
                [@ EXCEPT !.pc = "raised", !.fetches = @ + 1,
                          !.result = Raised("API error", "")]]
       \/ \E list \in Listings :
            LET rec == [th[t] EXCEPT !.fetched = list, !.fetches = @ + 1]
            IN  th' = [th EXCEPT ![t] =
                    IF impl = "orig" THEN after_ps(rec, list)
                    ELSE [rec EXCEPT !.pc = "assign"]]
    /\ UNCHANGED <<impl, t_vars, s_vars, ea_vars, l_vars, c_vars, st_vars, r_vars>>

\* `self._pods_cache = {p.id: p for p in pods}`
CacheAssign(t) ==
    /\ th[t].pc = "assign"
    /\ pods_cache' = id_cache(th[t].fetched)
    /\ LET rec == [th[t] EXCEPT !.touched = TRUE, !.i = 1]
       IN  th' = [overlap(t) EXCEPT ![t] =
                IF rec.fetched = << >> THEN after_ps(rec, rec.fetched)
                ELSE [rec EXCEPT !.pc = "name"]]
    /\ UNCHANGED <<impl, t_vars, ssh_key_path, calls, open, sftp, ea_vars, l_vars, c_vars,
                   st_vars, r_vars>>

\* `self._pods_cache[p.name] = p` for the pod the loop is at: the attribute
\* is read again, so the write goes to the cache that is current now.
CacheName(t) ==
    /\ th[t].pc = "name"
    /\ LET p == th[t].fetched[th[t].i]
       IN  /\ pods_cache' = cache_set(pods_cache, p.name, p)
           /\ th' = [overlap(t) EXCEPT ![t] = [th[t] EXCEPT !.pc = "huid"]]
    /\ UNCHANGED <<impl, t_vars, ssh_key_path, calls, open, sftp, ea_vars, l_vars, c_vars,
                   st_vars, r_vars>>

\* `self._pods_cache[p.huid] = p`, then the next pod of the loop or, after
\* the last one, `return pods`.
CacheHuid(t) ==
    /\ th[t].pc = "huid"
    /\ LET p == th[t].fetched[th[t].i]
           rec == [th[t] EXCEPT !.i = @ + 1]
       IN  /\ pods_cache' = cache_set(pods_cache, p.huid, p)
           /\ th' = [overlap(t) EXCEPT ![t] =
                    IF rec.i > Len(rec.fetched)
                    THEN after_ps(rec, rec.fetched)
                    ELSE [rec EXCEPT !.pc = "name"]]
    /\ UNCHANGED <<impl, t_vars, ssh_key_path, calls, open, sftp, ea_vars, l_vars, c_vars,
                   st_vars, r_vars>>

CacheNext ==
    \/ \E t \in Threads : BeginPs(t)
    \/ \E t \in Threads : BeginResolve(t)
    \/ \E t \in Threads : ResolveHit(t)
    \/ \E t \in Threads : Fetch(t)
    \/ \E t \in Threads : CacheAssign(t)
    \/ \E t \in Threads : CacheName(t)
    \/ \E t \in Threads : CacheHuid(t)

CacheSpec == CacheInit /\ [][CacheNext]_vars

----------------------------------------------------------------------------
(* Pods.retrieve of the celium client                                      *)

\* The largest timeout argument tried, in seconds.
MaxTimeout == 11

\* The timeout arguments: negative, zero, multiples of 5 and values between.
Timeouts == (-1)..MaxTimeout

\* The statuses the server reports for the pod.
PodStatuses == {"PENDING", "RUNNING", "STOPPED"}

\* `time.sleep(5)` and `elapsed_time += 5`
poll_interval == 5

\* The pod parsed from the response of GET request number k.
Pod(status, k) == [status |-> status, poll |-> k]

\* `while elapsed_time < timeout`
within_timeout_mut(elapsed, limit) == elapsed <= limit
within_timeout(elapsed, limit) == elapsed < limit

\* `not wait_until_running or pod.status == "RUNNING"`
done_polling(wait, p) == ~wait \/ p.status = "RUNNING"

\* `timeout: int = 5 * 60`, the timeout of the retrieve that create calls.
default_timeout == 300

\* Where Pods.create goes after its rent request: into retrieve, or out
\* with the exception of the request.
after_rent_mut(outcome) == "first"
after_rent(outcome) == IF outcome = "raised" THEN "raised" ELSE "first"

RetrieveInit ==
    /\ impl = "celium"
    /\ LifecycleIdle
    /\ TransportIdle
    /\ SessionsIdle
    /\ ExecAllIdle
    /\ StreamIdle
    /\ ThreadsIdle
    /\ \/ /\ rent = "none"
          /\ r_pc = "first"
          /\ wait_until_running \in BOOLEAN
          /\ timeout \in Timeouts
       \/ /\ rent = "pending"
          /\ r_pc = "rent"
          /\ wait_until_running = FALSE
          /\ timeout = default_timeout
    /\ elapsed_time = 0
    /\ r_pod = NonePod
    /\ polls = << >>
    /\ slept = 0

\* Pods.create: the POST /executors/{id}/rent; `return self.retrieve(id)`
\* follows when it returns, and its exception leaves create when it raises.
Rent ==
    /\ r_pc = "rent"
    /\ \E outcome \in {"ok", "raised"} :
        /\ rent' = outcome
        /\ r_pc' = after_rent(outcome)
    /\ UNCHANGED <<impl, t_vars, s_vars, ea_vars, l_vars, c_vars, st_vars, th,
                   wait_until_running, timeout, elapsed_time, r_pod, polls,
                   slept>>

\* `resp = self._t.request("GET", f"/pods/{id}")` before the loop: the
\* response is not parsed; then `elapsed_time = 0` and `pod = None`.
FirstRequest ==
    /\ r_pc = "first"
    /\ \/ \E st \in PodStatuses :
            /\ polls' = Append(polls, st)
            /\ r_pc' = "while"
       \/ /\ r_pc' = "raised"
          /\ UNCHANGED polls
    /\ UNCHANGED <<impl, t_vars, s_vars, ea_vars, l_vars, c_vars, st_vars, th,
                   rent, wait_until_running, timeout, elapsed_time, r_pod, slept>>

\* The test of the while loop; `return pod` once it fails.
LoopTest ==
    /\ r_pc = "while"
    /\ r_pc' = IF within_timeout(elapsed_time, timeout) THEN "poll"
               ELSE "returned"
    /\ UNCHANGED <<impl, t_vars, s_vars, ea_vars, l_vars, c_vars, st_vars, th,
                   rent, wait_until_running, timeout, elapsed_time, r_pod, polls,
                   slept>>

\* The request of the loop body, the parse of its response and the test
\* that returns the pod.
Poll ==
    /\ r_pc = "poll"
    /\ \/ \E st \in PodStatuses :
            LET p == Pod(st, Len(polls) + 1)
            IN  /\ polls' = Append(polls, st)
                /\ r_pod' = p
                /\ r_pc' = IF done_polling(wait_until_running, p)
                           THEN "returned" ELSE "sleep"
       \/ /\ r_pc' = "raised"
          /\ UNCHANGED <<polls, r_pod>>
    /\ UNCHANGED <<impl, t_vars, s_vars, ea_vars, l_vars, c_vars, st_vars, th,
                   rent, wait_until_running, timeout, elapsed_time, slept>>

\* `time.sleep(5)` and `elapsed_time += 5`
Sleep ==
    /\ r_pc = "sleep"
    /\ slept' = slept + 1
    /\ elapsed_time' = elapsed_time + poll_interval
    /\ r_pc' = "while"
    /\ UNCHANGED <<impl, t_vars, s_vars, ea_vars, l_vars, c_vars, st_vars, th,
                   rent, wait_until_running, timeout, r_pod, polls>>

RetrieveNext == Rent \/ FirstRequest \/ LoopTest \/ Poll \/ Sleep

RetrieveSpec == RetrieveInit /\ [][RetrieveNext]_vars

\* The call keeps running: a request is answered or raises, a sleep ends.
RetrieveFairSpec == RetrieveSpec /\ WF_vars(RetrieveNext)

----------------------------------------------------------------------------
(* Lium.up: rent an executor and recover the identity of the new pod       *)

\* The pod lists GET /pods answers with around a rent request: nothing, the
\* pod named n1 that was there before, that pod and a new one of the same
\* name, the new one alone.
UpListings == {<< >>, <<Fleet[1]>>, <<Fleet[1], Twin>>, <<Twin>>}

\* The pod_name arguments: the name of a pod of the listings, another name.
UpNames == {"n1", "new"}

\* The JSON body of the rent response: a record with an "id", a non-empty
\* record without one, an empty (falsy) body.
RentResponses == {"with_id", "idless", "empty"}

\* `response and "id" in response`
usable_id(resp) == resp = "with_id"

\* The seconds up sleeps before its fallback number k.
up_sleep(i, k) == IF i = "sdk" THEN (IF k = 1 THEN 3 ELSE 2) ELSE 2

\* The number of fallback re-fetches of each client.
up_fallbacks(i) == IF i = "sdk" THEN 2 ELSE 1

\* What up returns or raises.  keys are the keys of the record returned.
NoUpResult ==
    [kind |-> "none", keys |-> {}, id |-> "", name |-> "",
     executor_id |-> "", err |-> ""]
\* The rent response itself.
RentRecord(resp) ==
    [kind |-> "response",
     keys |-> IF resp = "with_id" THEN {"id"}
              ELSE IF resp = "idless" THEN {"status"} ELSE {},
     id |-> IF resp = "with_id" THEN "p9" ELSE "",
     name |-> "", executor_id |-> "", err |-> ""]
\* The record built from a pod of a re-fetched list.
PodRecord(p, executor) ==
    [kind |-> "pod",
     keys |-> {"id", "name", "status", "huid", "ssh_cmd", "executor_id"},
     id |-> p.id, name |-> p.name, executor_id |-> executor, err |-> ""]
\* The record for a pod that was not found: lium_sdk.py puts the requested
\* name under "id" as well, lium_sdk_original.py returns the rent response
\* when it is not empty.
Placeholder(i, resp, name, executor) ==
    IF i = "sdk"
    THEN [kind |-> "placeholder", keys |-> {"id", "name", "executor_id"},
          id |-> name, name |-> name, executor_id |-> executor, err |-> ""]
    ELSE IF resp = "idless" THEN RentRecord(resp)
    ELSE [kind |-> "placeholder", keys |-> {"name", "executor_id"},
          id |-> "", name |-> name, executor_id |-> executor, err |-> ""]
UpError(e) ==
    [kind |-> "error", keys |-> {}, id |-> "", name |-> "",
     executor_id |-> "", err |-> e]

\* The pod of the list that fallback number k takes for the new one, 0 if
\* none: the first fallback wants the requested name and no pod of that
\* name in the snapshot, the second fallback of lium_sdk.py the name alone.
up_match(k, list, name, initial) ==
    LET hits == {j \in DOMAIN list :
                    /\ list[j].name = name
                    /\ k = 1 => name \notin initial}
    IN  IF hits = {} THEN 0
        ELSE CHOOSE j \in hits : \A m \in hits : j <= m

\* The cache after a ps() that fetched list: Lium.ps of lium_sdk.py rebuilds
\* _pods_cache, that of lium_sdk_original.py keeps none.
cached_by_ps(i, cache, list) == IF i = "sdk" THEN ps_cache(list) ELSE cache

UpInit ==
    /\ impl \in Impls
    /\ TransportIdle
    /\ SessionsIdle
    /\ ExecAllIdle
    /\ StreamIdle
    /\ ThreadsIdle
    /\ RetrieveIdle
    /\ wr = NoCall
    /\ dn = NoCall
    /\ fn = NoCall
    /\ tr = NoCall
    /\ ed = NoCall
    /\ \E name \in UpNames :
        up = [pc |-> "prepare", pod_name |-> name, executor_id |-> "e1",
              initial |-> {}, response |-> "none", lists |-> << >>,
              naps |-> << >>, result |-> NoUpResult]

\* The template is chosen (GET /templates when none is given) and the SSH
\* public keys are read; either can end the call.
UpPrepare ==
    /\ up.pc = "prepare"
    /\ \/ up' = [up EXCEPT !.pc = "snapshot"]
       \/ \E e \in {"API error", "No templates available", "No SSH keys found"} :
            up' = [up EXCEPT !.pc = "raised", !.result = UpError(e)]
    /\ UNCHANGED <<impl, t_vars, s_vars, ea_vars, st_vars, th, r_vars, c_vars, wr, dn,
                   fn>>

\* `initial_pods = {p.name: p.id for p in self.ps()}`
UpSnapshot ==
    /\ up.pc = "snapshot"
    /\ \/ \E list \in UpListings :
            /\ up' = [up EXCEPT !.pc = "rent",
                             !.initial = {list[j].name : j \in DOMAIN list}]
            /\ pods_cache' = cached_by_ps(impl, pods_cache, list)
       \/ /\ up' = [up EXCEPT !.pc = "raised", !.result = UpError("API error")]
          /\ UNCHANGED pods_cache
    /\ UNCHANGED <<impl, t_vars, ssh_key_path, calls, open, sftp, ea_vars,
                   st_vars, th, r_vars, c_vars, wr, dn, fn>>

\* The POST /executors/{id}/rent; a response with an id is returned as it is.
UpRent ==
    /\ up.pc = "rent"
    /\ \/ \E r \in RentResponses :
            up' = IF usable_id(r)
                  THEN [up EXCEPT !.pc = "returned", !.response = r,
                                  !.result = RentRecord(r)]
                  ELSE [up EXCEPT !.pc = "sleep", !.response = r]
       \/ up' = [up EXCEPT !.pc = "raised", !.result = UpError("API error")]
    /\ UNCHANGED <<impl, t_vars, s_vars, ea_vars, st_vars, th, r_vars, c_vars, wr, dn,
                   fn>>

\* time.sleep before a fallback.
UpSleep ==
    /\ up.pc = "sleep"
    /\ up' = [up EXCEPT !.pc = "refetch",
                        !.naps = Append(@, up_sleep(impl, Len(up.lists) + 1))]
    /\ UNCHANGED <<impl, t_vars, s_vars, ea_vars, st_vars, th, r_vars, c_vars, wr, dn,
                   fn>>

\* A fallback: ps() and the search of its list; after the last fallback the
\* record for a pod that was not found.
UpRefetch ==
    /\ up.pc = "refetch"
    /\ \/ \E list \in UpListings :
            LET k == Len(up.lists) + 1
                j == up_match(k, list, up.pod_name, up.initial)
                rec == [up EXCEPT !.lists = Append(@, list)]
            IN  /\ up' = IF j # 0
                         THEN [rec EXCEPT !.pc = "returned",
                                !.result = PodRecord(list[j], up.executor_id)]
                         ELSE IF k < up_fallbacks(impl)
                              THEN [rec EXCEPT !.pc = "sleep"]
                              ELSE [rec EXCEPT !.pc = "returned",
                                    !.result = Placeholder(impl, up.response,
                                            up.pod_name, up.executor_id)]
                /\ pods_cache' = cached_by_ps(impl, pods_cache, list)
       \/ /\ up' = [up EXCEPT !.pc = "raised", !.result = UpError("API error")]
          /\ UNCHANGED pods_cache
    /\ UNCHANGED <<impl, t_vars, ssh_key_path, calls, open, sftp, ea_vars,
                   st_vars, th, r_vars, c_vars, wr, dn, fn>>

UpNext == UpPrepare \/ UpSnapshot \/ UpRent \/ UpSleep \/ UpRefetch

UpSpec == UpInit /\ [][UpNext]_vars

----------------------------------------------------------------------------
(* Lium.wait_ready (wait_for_pod_ready of lium_sdk_original.py)            *)

\* The largest timeout argument tried, in seconds.
MaxWait == 21

\* `time.sleep(10)` (`check_interval: int = 10` in lium_sdk_original.py)
check_interval == 10

\* The timeout arguments: none, less than one sleep, one sleep, more.
WaitTimeouts == {0, 1, check_interval, MaxWait}

\* The dict Lium.up returns, passed on as the pod argument.
Dict(id, name) ==
    [kind |-> "dict", id |-> id, name |-> name, huid |-> "", ssh_cmd |-> ""]

\* The pod arguments: the two listed pods, an id, a display name, an
\* identifier no pod has and, for lium_sdk.py, the dict of Lium.up.
WaitArgs(i) ==
    {Fleet[1], Fleet[2], Str("p1"), Str("n1"), Str("zz")}
        \cup (IF i = "sdk" THEN {Dict("p1", "n1")} ELSE {})

\* What GET /pods answers a poll with: no pod, or the fleet.
WaitListings == {<< >>, Fleet}

\* The status the listed pods have at a poll (a free-form string).
WaitStatuses == {"PENDING", "RUNNING", "running"}

\* `status.upper()`
upper(st) == IF st = "running" THEN "RUNNING" ELSE st

\* `next((p for p in fresh_pods if p.id == pod_id), None)`: the index of
\* the pod, 0 for None.
by_id(list, x) ==
    LET hits == {j \in 1..Len(list) : list[j].id = x}
    IN  IF hits = {} THEN 0
        ELSE CHOOSE j \in hits : \A m \in hits : j <= m

\* `current and current.status.upper() == "RUNNING" and current.ssh_cmd`
ready_mut(list, j, st) == j # 0 /\ upper(st) = "RUNNING"
ready(list, j, st) == j # 0 /\ upper(st) = "RUNNING" /\ ~no_ssh_cmd(list[j])

NoWaitResult == [kind |-> "none", value |-> FALSE, err |-> ""]
\* `return True`, `return False`
WaitValue(b) == [kind |-> "bool", value |-> b, err |-> ""]
WaitError(e) == [kind |-> "error", value |-> FALSE, err |-> e]

\* What a poll observed: the list and the status, or the exception of the
\* request.
Observed(list, st) == [list |-> list, status |-> st]
Failure == [list |-> << >>, status |-> "error"]

\* The call once the request of a poll has raised: neither function has a
\* try block, so the exception leaves the call.
poll_failed_mut(rec) ==
    [rec EXCEPT !.pc = "returned", !.result = WaitValue(FALSE)]
poll_failed(rec) ==
    [rec EXCEPT !.pc = "raised", !.result = WaitError("API error")]

WaitInit ==
    /\ impl \in Impls
    /\ TransportIdle
    /\ SessionsIdle
    /\ ExecAllIdle
    /\ StreamIdle
    /\ ThreadsIdle
    /\ RetrieveIdle
    /\ up = NoCall
    /\ dn = NoCall
    /\ fn = NoCall
    /\ tr = NoCall
    /\ ed = NoCall
    /\ \E x \in WaitArgs(impl), T \in WaitTimeouts :
        wr = [pc |-> "begin", arg |-> x, pod_id |-> "", timeout |-> T,
              waited |-> 0, lookup |-> "none", seen |-> << >>,
              result |-> NoWaitResult]

\* The pod id: lium_sdk.py takes it from the argument (the id of a PodInfo,
\* the "id" of a dict, a string as it is); lium_sdk_original.py resolves the
\* argument, which for a string calls ps().
WaitBegin ==
    /\ wr.pc = "begin"
    /\ wr' = IF impl = "sdk" \/ is_pod_info(wr.arg)
             THEN [wr EXCEPT !.pc = "while", !.pod_id = wr.arg.id]
             ELSE [wr EXCEPT !.pc = "resolve"]
    /\ UNCHANGED <<impl, t_vars, s_vars, ea_vars, st_vars, th, r_vars, c_vars, up, dn,
                   fn>>

\* _resolve_pod of lium_sdk_original.py on a string: ps(), then the first
\* pod the string names or ValueError(f"Pod '{pod}' not found").
WaitResolve ==
    /\ wr.pc = "resolve"
    /\ \/ \E list \in WaitListings :
            LET j == first_match(list, wr.arg.id)
            IN  wr' = IF j = 0
                      THEN [wr EXCEPT !.pc = "raised", !.lookup = "missing",
                                      !.result = WaitError("Pod not found")]
                      ELSE [wr EXCEPT !.pc = "while", !.lookup = "found",
                                      !.pod_id = list[j].id]
       \/ wr' = [poll_failed(wr) EXCEPT !.lookup = "error"]
    /\ UNCHANGED <<impl, t_vars, s_vars, ea_vars, st_vars, th, r_vars, c_vars, up, dn,
                   fn>>

\* `while time.time() - start < timeout`, and `return False` after the
\* loop.  The time that passes is that of the sleeps; the requests are
\* taken to be instantaneous.
WaitTest ==
    /\ wr.pc = "while"
    /\ wr' = IF wr.waited < wr.timeout
             THEN [wr EXCEPT !.pc = "poll"]
             ELSE [wr EXCEPT !.pc = "returned", !.result = WaitValue(FALSE)]
    /\ UNCHANGED <<impl, t_vars, s_vars, ea_vars, st_vars, th, r_vars, c_vars, up, dn,
                   fn>>

\* The body of the loop up to the sleep: ps(), the search for the pod id
\* and the test that returns True.
WaitPoll ==
    /\ wr.pc = "poll"
    /\ \/ \E list \in WaitListings, st \in WaitStatuses :
            LET rec == [wr EXCEPT !.seen = Append(@, Observed(list, st))]
            IN  /\ wr' = IF ready(list, by_id(list, wr.pod_id), st)
                         THEN [rec EXCEPT !.pc = "returned",
                                          !.result = WaitValue(TRUE)]
                         ELSE [rec EXCEPT !.pc = "sleep"]
                /\ pods_cache' = cached_by_ps(impl, pods_cache, list)
       \/ /\ wr' = poll_failed([wr EXCEPT !.seen = Append(@, Failure)])
          /\ UNCHANGED pods_cache
    /\ UNCHANGED <<impl, t_vars, ssh_key_path, calls, open, sftp, ea_vars,
                   st_vars, th, r_vars, c_vars, up, dn, fn>>

\* `time.sleep(10)` (`time.sleep(check_interval)`)
WaitSleep ==
    /\ wr.pc = "sleep"
    /\ wr' = [wr EXCEPT !.pc = "while", !.waited = @ + check_interval]
    /\ UNCHANGED <<impl, t_vars, s_vars, ea_vars, st_vars, th, r_vars, c_vars, up, dn,
                   fn>>

WaitNext == WaitBegin \/ WaitResolve \/ WaitTest \/ WaitPoll \/ WaitSleep

WaitSpec == WaitInit /\ [][WaitNext]_vars

----------------------------------------------------------------------------
(* The pure helpers: the derived properties of PodInfo, generate_huid and  *)
(* extract_gpu_type.  A string is the sequence of its characters.          *)

\* The longest enumerated part of an input string, in characters.
MaxLen == 4

\* `None` where a string is expected.
NoneStr == <<"None">>

\* Every string over the characters of A of at most n characters.
Strings(A, n) == UNION {[1..k -> A] : k \in 0..n}

\* The characters SSH connection commands are enumerated over.
SshChars == {" ", "u", "@", "-", "p", "2"}

\* "ssh user@host -p 2222", the command of the specification's example.
ExampleCmd == <<"s", "s", "h", " ", "u", "s", "e", "r", "@", "h", "o", "s", "t", " ", "-", "p", " ", "2", "2", "2", "2">>

\* The SSH connection commands: None, every short string, and every short
\* string after "ssh u@h" and after "ssh u@h ".
SshCmds ==
    {NoneStr, ExampleCmd}
        \cup {pre \o s : pre \in {<< >>, <<"s", "s", "h", " ", "u", "@", "h">>, <<"s", "s", "h", " ", "u", "@", "h", " ">>},
                         s \in Strings(SshChars, MaxLen)}

\* Whitespace, for \S of the patterns and for str.split().
IsSpace(c) == c = " "

IsDigit(c) == c \in {"0", "1", "2", "3", "4", "5", "6", "7", "8", "9"}

\* The value of a decimal digit.
DigitValue(c) ==
    CASE c = "0" -> 0 [] c = "1" -> 1 [] c = "2" -> 2 [] c = "3" -> 3
      [] c = "4" -> 4 [] c = "5" -> 5 [] c = "6" -> 6 [] c = "7" -> 7
      [] c = "8" -> 8 [] c = "9" -> 9

\* s has pat at position i.
At(s, pat, i) ==
    i >= 1 /\ i + Len(pat) - 1 <= Len(s) /\ SubSeq(s, i, i + Len(pat) - 1) = pat

\* The first position at or after from where s has pat, 0 if there is none.
Find(s, pat, from) ==
    LET hits == {i \in from..Len(s) : At(s, pat, i)}
    IN  IF hits = {} THEN 0 ELSE CHOOSE i \in hits : \A m \in hits : i <= m

\* The last position of the run of non-space characters that starts at i
\* (i - 1 when s has a space, or nothing, at i): the extent of a greedy \S+.
RunEnd(s, i) ==
    LET stops == {e \in i..Len(s) : IsSpace(s[e])}
    IN  IF stops = {} THEN Len(s)
        ELSE (CHOOSE e \in stops : \A m \in stops : e <= m) - 1

\* `s.split()[0]` for a string that has a token, << >> for one that has none.
FirstToken(s) ==
    LET starts == {i \in 1..Len(s) : ~IsSpace(s[i])}
    IN  IF starts = {} THEN << >>
        ELSE LET i == CHOOSE j \in starts : \A m \in starts : j <= m
             IN  SubSeq(s, i, RunEnd(s, i))

\* `s.split()[-1]` for a string that has a token, << >> for one that has none.
LastToken(s) ==
    LET ends == {i \in 1..Len(s) : ~IsSpace(s[i])}
    IN  IF ends = {} THEN << >>
        ELSE LET e == CHOOSE j \in ends : \A m \in ends : m <= j
                 starts == {i \in 1..e : \A m \in i..e : ~IsSpace(s[m])}
             IN  SubSeq(s, CHOOSE i \in starts : \A m \in starts : i <= m, e)

\* `if self.ssh_cmd`
has_cmd(cmd) == cmd # NoneStr /\ cmd # << >>

\* PodInfo.host: `(re.findall(r'@(\S+)', self.ssh_cmd) or [None])[0]`
host(cmd) ==
    IF ~has_cmd(cmd) THEN NoneStr
    ELSE LET hits == {i \in 1..(Len(cmd) - 1) :
                        cmd[i] = "@" /\ ~IsSpace(cmd[i + 1])}
         IN  IF hits = {} THEN NoneStr
             ELSE LET i == CHOOSE j \in hits : \A m \in hits : j <= m
                  IN  SubSeq(cmd, i + 1, RunEnd(cmd, i + 1))

\* The end of the group of `ssh (\S+)@` matched at i: the \S+ takes the run
\* of non-space characters after "ssh " and gives back up to the last "@"
\* that leaves it a character; 0 when there is no match at i.
user_end(cmd, i) ==
    IF ~At(cmd, <<"s", "s", "h", " ">>, i) THEN 0
    ELSE LET ats == {q \in (i + 5)..RunEnd(cmd, i + 4) : cmd[q] = "@"}
         IN  IF ats = {} THEN 0
             ELSE (CHOOSE q \in ats : \A m \in ats : m <= q) - 1

\* PodInfo.username: `(re.findall(r'ssh (\S+)@', self.ssh_cmd) or [None])[0]`
username(cmd) ==
    IF ~has_cmd(cmd) THEN NoneStr
    ELSE LET hits == {i \in 1..Len(cmd) : user_end(cmd, i) # 0}
         IN  IF hits = {} THEN NoneStr
             ELSE LET i == CHOOSE j \in hits : \A m \in hits : j <= m
                  IN  SubSeq(cmd, i + 4, user_end(cmd, i))

\* A value returned, an exception raised.
Value(n) == [ok |-> TRUE, value |-> n, err |-> ""]
Raises(e) == [ok |-> FALSE, value |-> 0, err |-> e]

\* The number a string of decimal digits writes.
RECURSIVE Decimal(_)
Decimal(ds) ==
    IF ds = << >> THEN 0
    ELSE 10 * Decimal(SubSeq(ds, 1, Len(ds) - 1)) + DigitValue(ds[Len(ds)])

\* `int(token)`: an optional sign and decimal digits, ValueError otherwise.
int(token) ==
    LET signed == token # << >> /\ token[1] \in {"-", "+"}
        ds == IF signed THEN Tail(token) ELSE token
    IN  IF ds = << >> \/ \E k \in DOMAIN ds : ~IsDigit(ds[k])
        THEN Raises("ValueError")
        ELSE Value(IF signed /\ token[1] = "-" THEN 0 - Decimal(ds)
                   ELSE Decimal(ds))

\* `self.ssh_cmd.split('-p ')[1]`: what follows the first "-p ", up to the
\* next "-p "; defined when the string has a "-p ".
after_flag(cmd) ==
    LET i == Find(cmd, <<"-", "p", " ">>, 1)
        j == Find(cmd, <<"-", "p", " ">>, i + 3)
    IN  SubSeq(cmd, i + 3, IF j = 0 THEN Len(cmd) ELSE j - 1)

\* PodInfo.ssh_port: `int(self.ssh_cmd.split('-p ')[1].split()[0])`
ssh_port(cmd) ==
    IF cmd = NoneStr THEN Raises("AttributeError")
    ELSE IF Find(cmd, <<"-", "p", " ">>, 1) = 0 THEN Raises("IndexError")
    ELSE IF FirstToken(after_flag(cmd)) = << >> THEN Raises("IndexError")
    ELSE int(FirstToken(after_flag(cmd)))

\* A call of a helper on input x.
HelperCall(op, x) == [pc |-> "call", op |-> op, arg |-> x]

\* The three derived properties of one PodInfo are read.
DerivedProperties ==
    /\ fn.pc = "call"
    /\ fn.op = "PodInfo"
    /\ fn' = [pc |-> "done", op |-> fn.op, arg |-> fn.arg,
              out |-> [host |-> host(fn.arg), username |-> username(fn.arg),
                       ssh_port |-> ssh_port(fn.arg)]]
    /\ UNCHANGED <<impl, t_vars, s_vars, ea_vars, st_vars, th, r_vars, c_vars, up, wr,
                   dn>>

\* The identifiers hashed: the empty one, ids of pods and of an executor,
\* the UUID of tests/test_utils.py and a blank.
HuidIds ==
    {"", "p1", "p2", "p3", "e1", "550e8400-e29b-41d4-a716-446655440000", " "}

\* The calls made with one identifier.
MaxRepeats == 2

\* `ADJECTIVES` and `NOUNS` of generate_huid (lium_sdk.py) and of
\* generate_human_id (lium_sdk_original.py).
ADJECTIVES(i) ==
    IF i = "sdk"
    THEN <<"swift", "brave", "calm", "eager", "gentle", "cosmic", "golden",
           "lunar", "zesty", "noble">>
    ELSE <<"swift", "silent", "brave", "bright", "calm", "clever", "eager",
           "fierce", "gentle", "grand", "happy", "jolly", "kind", "lively",
           "merry", "noble", "proud", "silly", "witty", "zesty", "cosmic",
           "digital", "electric", "frozen", "golden", "hydro", "iron",
           "laser", "lunar", "solar">>

NOUNS(i) ==
    IF i = "sdk"
    THEN <<"hawk", "lion", "eagle", "fox", "wolf", "shark", "raven",
           "matrix", "comet", "orbit">>
    ELSE <<"hawk", "lion", "tiger", "eagle", "fox", "wolf", "shark",
           "viper", "cobra", "falcon", "jaguar", "leopard", "lynx",
           "panther", "puma", "cougar", "condor", "raven", "photon",
           "quasar", "vector", "matrix", "cipher", "pixel", "comet",
           "nebula", "nova", "orbit", "axiom", "sphinx">>

\* `hashlib.md5(id_str.encode()).hexdigest()`: the 32 hexadecimal digits of
\* the MD5 digest of the identifier, for each identifier of HuidIds.
md5_hexdigest(id) ==
    CASE
         id = "p1" ->
          <<"e", "c", "6", "e", "f", "2", "3", "0", "f", "1", "8", "2",
            "8", "0", "3", "9", "e", "e", "7", "9", "4", "5", "6", "6",
            "b", "9", "c", "5", "8", "a", "d", "c">>
      [] id = "p2" ->
          <<"1", "d", "6", "6", "5", "b", "9", "b", "1", "4", "6", "7",
            "9", "4", "4", "c", "1", "2", "8", "a", "5", "5", "7", "5",
            "1", "1", "9", "d", "1", "c", "f", "d">>
      [] id = "p3" ->
          <<"7", "b", "c", "3", "c", "a", "6", "8", "7", "6", "9", "4",
            "3", "7", "c", "e", "9", "8", "6", "4", "5", "5", "4", "0",
            "7", "d", "a", "b", "2", "a", "1", "f">>
      [] id = "e1" ->
          <<"c", "d", "3", "d", "c", "8", "b", "6", "c", "f", "f", "b",
            "4", "1", "e", "4", "1", "6", "3", "d", "c", "b", "d", "8",
            "5", "7", "c", "a", "8", "7", "d", "a">>
      [] id = "550e8400-e29b-41d4-a716-446655440000" ->
          <<"e", "8", "4", "5", "6", "c", "e", "e", "7", "f", "d", "2",
            "3", "4", "8", "c", "f", "a", "2", "3", "9", "3", "4", "2",
            "b", "1", "0", "a", "2", "3", "b", "d">>
      [] id = " " ->
          <<"7", "2", "1", "5", "e", "e", "9", "c", "7", "d", "9", "d",
            "c", "2", "2", "9", "d", "2", "9", "2", "1", "a", "4", "0",
            "e", "8", "9", "9", "e", "c", "5", "f">>

\* The value of a hexadecimal digit.
HexValue(c) ==
    CASE c = "a" -> 10 [] c = "b" -> 11 [] c = "c" -> 12 [] c = "d" -> 13
      [] c = "e" -> 14 [] c = "f" -> 15 [] OTHER -> DigitValue(c)

\* `int(digits, 16)`
RECURSIVE int16(_)
int16(ds) ==
    IF ds = << >> THEN 0
    ELSE 16 * int16(SubSeq(ds, 1, Len(ds) - 1)) + HexValue(ds[Len(ds)])

\* `WORDS[int(digest[a:b], 16) % len(WORDS)]`, with the 0-based half-open
\* slice of the source.
pick(words, digest, a, b) ==
    words[(int16(SubSeq(digest, a + 1, b)) % Len(words)) + 1]

\* `digest[-2:]`
suffix_mut(digest) == digest[1] \o digest[2]
suffix(digest) == digest[Len(digest) - 1] \o digest[Len(digest)]

\* The value for an empty identifier.
invalid(i) == IF i = "sdk" THEN "invalid" ELSE "invalid-id-huid"

\* generate_huid (generate_human_id in lium_sdk_original.py)
generate_huid(i, id) ==
    IF id = "" THEN invalid(i)
    ELSE LET digest == md5_hexdigest(id)
         IN  pick(ADJECTIVES(i), digest, 0, 4) \o "-"
                \o pick(NOUNS(i), digest, 4, 8) \o "-" \o suffix(digest)

\* One more call with the same identifier.
GenerateHuid ==
    /\ fn.pc \in {"call", "done"}
    /\ fn.op = "generate_huid"
    /\ Len(fn.out) < MaxRepeats
    /\ fn' = [pc |-> "done", op |-> fn.op, arg |-> fn.arg,
              out |-> Append(fn.out, generate_huid(impl, fn.arg))]
    /\ UNCHANGED <<impl, t_vars, s_vars, ea_vars, st_vars, th, r_vars, c_vars, up, wr,
                   dn>>

\* The characters machine descriptors are enumerated over.
GpuChars == {" ", "4", "H", "h", "A", "S"}

\* The machine descriptors: every short string, alone, after "RTX", after
\* "rtx " and after "NVIDIA ".
MachineNames ==
    {pre \o s : pre \in {<< >>, <<"R", "T", "X">>, <<"r", "t", "x", " ">>, <<"N", "V", "I", "D", "I", "A", " ">>},
                s \in Strings(GpuChars, MaxLen)}

\* A character without its case, for the patterns compiled with re.I.
fold(c) ==
    CASE c = "h" -> "H" [] c = "b" -> "B" [] c = "l" -> "L" [] c = "a" -> "A"
      [] c = "s" -> "S" [] c = "r" -> "R" [] c = "t" -> "T" [] c = "x" -> "X"
      [] OTHER -> c

\* s has n decimal digits from position i on.
DigitsAt(s, i, n) == i + n - 1 <= Len(s) /\ \A k \in i..(i + n - 1) : IsDigit(s[k])

\* The first position after the spaces that start at i.
SkipSpaces(s, i) ==
    LET stops == {e \in i..Len(s) : ~IsSpace(s[e])}
    IN  IF stops = {} THEN Len(s) + 1
        ELSE CHOOSE e \in stops : \A m \in stops : e <= m

\* The least element of a set of positions, 0 for the empty set.
First(hits) == IF hits = {} THEN 0 ELSE CHOOSE i \in hits : \A m \in hits : i <= m

\* r"RTX\s*(\d{4})" at position i: the group, << >> when it does not match.
rtx_at(s, i) ==
    IF /\ i + 2 <= Len(s)
       /\ <<fold(s[i]), fold(s[i + 1]), fold(s[i + 2])>> = <<"R", "T", "X">>
       /\ DigitsAt(s, SkipSpaces(s, i + 3), 4)
    THEN LET d == SkipSpaces(s, i + 3) IN SubSeq(s, d, d + 3)
    ELSE << >>

\* r"([HBL])(\d{2,3}S?)" and r"A(\d{2,3})" at position i: the text matched
\* by a letter of the set, two digits, a third if there is one and, when
\* tail is given, an S if there is one; << >> when there is no match.
code_at(s, i, letters, tail) ==
    IF fold(s[i]) \in letters /\ DigitsAt(s, i + 1, 2)
    THEN LET e == IF DigitsAt(s, i + 1, 3) THEN i + 3 ELSE i + 2
             f == IF tail /\ e + 1 <= Len(s) /\ fold(s[e + 1]) = "S"
                  THEN e + 1 ELSE e
         IN  SubSeq(s, i, f)
    ELSE << >>

\* The patterns in the order of the list; each gives, for its leftmost
\* match, what its lambda formats: "RTX" and the group, the groups, "A" and
\* the group.
pattern_order == <<1, 2, 3>>

search(s, n) ==
    CASE n = 1 ->
            LET i == First({j \in 1..Len(s) : rtx_at(s, j) # << >>})
            IN  IF i = 0 THEN << >> ELSE <<"R", "T", "X">> \o rtx_at(s, i)
      [] n = 2 ->
            LET i == First({j \in 1..Len(s) :
                                code_at(s, j, {"H", "B", "L"}, TRUE) # << >>})
            IN  IF i = 0 THEN << >> ELSE code_at(s, i, {"H", "B", "L"}, TRUE)
      [] n = 3 ->
            LET i == First({j \in 1..Len(s) :
                                code_at(s, j, {"A"}, FALSE) # << >>})
            IN  IF i = 0 THEN << >>
                ELSE <<"A">> \o Tail(code_at(s, i, {"A"}, FALSE))

\* "Unknown"
Unknown == <<"Unknown">>

\* extract_gpu_type: the first pattern of the order that matches; without a
\* match `machine_name.split()[-1] if machine_name else "Unknown"`, where
\* [-1] of an empty list raises IndexError.
extract_gpu_type(s) ==
    LET found == {k \in 1..Len(pattern_order) :
                    search(s, pattern_order[k]) # << >>}
    IN  IF found # {} THEN Value(search(s, pattern_order[First(found)]))
        ELSE IF s = << >> THEN Value(Unknown)
        ELSE IF LastToken(s) = << >>
             THEN [ok |-> FALSE, value |-> << >>, err |-> "IndexError"]
             ELSE Value(LastToken(s))

ExtractGpuType ==
    /\ fn.pc = "call"
    /\ fn.op = "extract_gpu_type"
    /\ fn' = [pc |-> "done", op |-> fn.op, arg |-> fn.arg,
              out |-> extract_gpu_type(fn.arg)]
    /\ UNCHANGED <<impl, t_vars, s_vars, ea_vars, st_vars, th, r_vars, c_vars, up, wr,
                   dn>>

\* `shlex.split(s)` of a string without quotes, backslashes or comment
\* characters: its runs of non-space characters, in order.
RECURSIVE Tokens(_)
Tokens(s) ==
    LET starts == {i \in 1..Len(s) : ~IsSpace(s[i])}
    IN  IF starts = {} THEN << >>
        ELSE LET i == CHOOSE j \in starts : \A m \in starts : j <= m
                 e == RunEnd(s, i)
             IN  <<SubSeq(s, i, e)>> \o Tokens(SubSeq(s, e + 1, Len(s)))

\* `port = 22` of ssh_connection, the port of a command without "-p".
default_port == 22

\* An endpoint parsed from an SSH command, an exception raised instead.
Endpoint(u, h, p) == [ok |-> TRUE, user |-> u, host |-> h, port |-> p, err |-> ""]
NoEndpoint(e) == [ok |-> FALSE, user |-> << >>, host |-> << >>, port |-> 0, err |-> e]

\* The port ssh_connection reads: the token after the first "-p" token.
connection_port(parts) ==
    LET flags == {k \in DOMAIN parts : parts[k] = <<"-", "p">>}
    IN  IF flags = {} THEN Value(default_port)
        ELSE LET k == CHOOSE j \in flags : \A m \in flags : j <= m
             IN  IF k + 1 > Len(parts) THEN Raises("IndexError")
                 ELSE int(parts[k + 1])

\* The endpoint Lium.ssh_connection opens its session to (with an SSH key
\* configured): `user, host = parts[1].split("@")`, and the port.
ssh_connection(cmd) ==
    IF ~has_cmd(cmd) THEN NoEndpoint("ValueError")
    ELSE LET parts == Tokens(cmd)
         IN  IF Len(parts) < 2 THEN NoEndpoint("IndexError")
             ELSE LET ats == {q \in DOMAIN parts[2] : parts[2][q] = "@"}
                  IN  IF Cardinality(ats) # 1 THEN NoEndpoint("ValueError")
                      ELSE LET q == CHOOSE a \in ats : TRUE
                               p == connection_port(parts)
                           IN  IF ~p.ok THEN NoEndpoint(p.err)
                               ELSE Endpoint(SubSeq(parts[2], 1, q - 1),
                                             SubSeq(parts[2], q + 1, Len(parts[2])),
                                             p.value)

\* The endpoint Lium.rsync builds its command for (with an SSH key
\* configured): `-p {pod_info.ssh_port}` and
\* `{pod_info.username}@{pod_info.host}`.
rsync(cmd) ==
    IF ~has_cmd(cmd) THEN NoEndpoint("ValueError")
    ELSE IF ~ssh_port(cmd).ok THEN NoEndpoint(ssh_port(cmd).err)
    ELSE Endpoint(username(cmd), host(cmd), ssh_port(cmd).value)

\* The endpoints of one pod are computed, for exec and for rsync.
Endpoints ==
    /\ fn.pc = "call"
    /\ fn.op = "endpoint"
    /\ fn' = [pc |-> "done", op |-> fn.op, arg |-> fn.arg,
              out |-> [connection |-> ssh_connection(fn.arg),
                       rsync |-> rsync(fn.arg)]]
    /\ UNCHANGED <<impl, t_vars, s_vars, ea_vars, st_vars, th, r_vars, c_vars, up, wr,
                   dn>>

\* A helper is about to be called: the properties of a PodInfo and
\* extract_gpu_type of lium_sdk.py, generate_huid of either client.
HelperInit ==
    /\ impl \in Impls
    /\ TransportIdle
    /\ SessionsIdle
    /\ ExecAllIdle
    /\ StreamIdle
    /\ ThreadsIdle
    /\ RetrieveIdle
    /\ up = NoCall
    /\ wr = NoCall
    /\ dn = NoCall
    /\ tr = NoCall
    /\ ed = NoCall
    /\ \/ impl = "sdk" /\ \E x \in SshCmds : fn = HelperCall("PodInfo", x)
       \/ impl = "sdk" /\ \E x \in SshCmds : fn = HelperCall("endpoint", x)
       \/ impl = "sdk" /\ \E x \in MachineNames :
                            fn = HelperCall("extract_gpu_type", x)
       \/ \E x \in HuidIds :
            fn = [pc |-> "call", op |-> "generate_huid", arg |-> x,
                  out |-> << >>]

HelperNext == DerivedProperties \/ GenerateHuid \/ ExtractGpuType \/ Endpoints

HelperSpec == HelperInit /\ [][HelperNext]_vars

----------------------------------------------------------------------------
(* Lium.down (Lium.rm) and Pods.delete                                      *)

\* The clients that can delete a pod.
DownImpls == {"sdk", "orig", "celium"}

\* The pod arguments of Lium.down, and no pod (`pod=None`, which only down
\* of lium_sdk_original.py accepts).
NoPod == Str("")
DownArgs(i) == PodInputs \cup (IF i = "orig" THEN {NoPod} ELSE {})

\* The executor_id argument of down in lium_sdk_original.py: not given, or
\* the id of an executor.
GivenExecutors(i) == IF i = "orig" THEN {"None", "e2"} ELSE {"None"}

\* `pod_info.executor` of the resolved pod: a dict with an id, a dict
\* without one (`d.get("executor", {})`), or None.
Owners == {"e1", "", "None"}

\* The caches a client can hold when down is called: none yet, or that of
\* an earlier ps().
DownCaches(i) == IF i = "sdk" THEN {<< >>, ps_cache(Fleet)} ELSE {<< >>}

\* `if not executor_id`
no_executor_id_mut(x) == FALSE
no_executor_id(x) == x \in {"", "None"}

\* The error of that test.
no_executor_error(i) ==
    IF i = "sdk" THEN "No executor ID for pod"
    ELSE "Either pod or executor_id must be provided"

\* `self._resolve_pod(pod)`
resolve_pod(i, x, cache, http) ==
    IF i = "sdk" THEN sdk_resolve_pod(x, cache, http)
    ELSE orig_resolve_pod(x, cache, http)

\* _resolve_pod calls ps() for x: x is a string and, in lium_sdk.py, not a
\* key of the cache.
refreshes(i, x, cache) ==
    ~is_pod_info(x) /\ (i = "orig" \/ x.id \notin DOMAIN cache)

\* DELETE /executors/{id}/rent
Delete(id) == [method |-> "DELETE", executor |-> id]

NoDownResult == [kind |-> "none", err |-> ""]
DownResponse == [kind |-> "response", err |-> ""]
DownError(e) == [kind |-> "error", err |-> e]

DownInit ==
    /\ impl \in DownImpls
    /\ TransportIdle
    /\ ExecAllIdle
    /\ StreamIdle
    /\ ThreadsIdle
    /\ RetrieveIdle
    /\ ssh_key_path = "None"
    /\ pods_cache \in DownCaches(impl)
    /\ calls = << >>
    /\ open = {}
    /\ sftp = {}
    /\ up = NoCall
    /\ wr = NoCall
    /\ fn = NoCall
    /\ tr = NoCall
    /\ ed = NoCall
    /\ \/ /\ impl = "celium"
          /\ dn = [pc |-> "request", arg |-> Str("e1"), given |-> "None",
                   pod |-> NoPod, owner |-> "None", executor |-> "e1",
                   http |-> "none", requests |-> << >>,
                   result |-> NoDownResult]
       \/ /\ impl # "celium"
          /\ \E x \in DownArgs(impl), g \in GivenExecutors(impl) :
                dn = [pc |-> "resolve", arg |-> x, given |-> g,
                      pod |-> NoPod, owner |-> "None", executor |-> g,
                      http |-> "none", requests |-> << >>,
                      result |-> NoDownResult]

\* `pod_info = self._resolve_pod(pod)` and
\* `executor_id = pod_info.executor.get("id")`; lium_sdk_original.py does
\* both only `if pod`.  http is "none" when _resolve_pod makes no request.
DownResolve ==
    /\ dn.pc = "resolve"
    /\ IF dn.arg = NoPod
       THEN /\ dn' = [dn EXCEPT !.pc = "check"]
            /\ UNCHANGED pods_cache
       ELSE \E h \in {"ok", "error"}, owner \in Owners :
            LET r == resolve_pod(impl, dn.arg, pods_cache, h)
                rec == [dn EXCEPT !.http =
                            IF refreshes(impl, dn.arg, pods_cache) THEN h
                            ELSE "none"]
            IN  /\ pods_cache' = r.cache
                /\ dn' =
                    IF ~r.ok
                    THEN [rec EXCEPT !.pc = "raised",
                                     !.result = DownError(r.err)]
                    ELSE IF owner = "None"
                    THEN [rec EXCEPT !.pc = "raised", !.pod = r.pod,
                                     !.result = DownError("AttributeError")]
                    ELSE [rec EXCEPT !.pc = "check", !.pod = r.pod,
                                     !.owner = owner, !.executor = owner]
    /\ UNCHANGED <<impl, t_vars, ssh_key_path, calls, open, sftp, ea_vars,
                   st_vars, th, r_vars, c_vars, up, wr, fn>>

\* `if not executor_id: raise ValueError(...)`
DownCheck ==
    /\ dn.pc = "check"
    /\ dn' = IF no_executor_id(dn.executor)
             THEN [dn EXCEPT !.pc = "raised",
                             !.result = DownError(no_executor_error(impl))]
             ELSE [dn EXCEPT !.pc = "request"]
    /\ UNCHANGED <<impl, t_vars, s_vars, ea_vars, st_vars, th, r_vars, c_vars, up, wr,
                   fn>>

\* The transport request DELETE /executors/{executor_id}/rent: its response
\* is returned, its exception leaves the call.
DownRequest ==
    /\ dn.pc = "request"
    /\ \E outcome \in {"ok", "raised"} :
        dn' = [dn EXCEPT
                !.requests = Append(@, Delete(dn.executor)),
                !.pc = IF outcome = "ok" THEN "returned" ELSE "raised",
                !.result = IF outcome = "ok" THEN DownResponse
                           ELSE DownError("API error")]
    /\ UNCHANGED <<impl, t_vars, s_vars, ea_vars, st_vars, th, r_vars, c_vars, up, wr,
                   fn>>

DownNext == DownResolve \/ DownCheck \/ DownRequest

DownSpec == DownInit /\ [][DownNext]_vars

----------------------------------------------------------------------------
(* The operations that poll the server or refresh the pod list, one at a   *)
(* time: wait_ready, Pods.retrieve (Pods.create) and down                   *)

PollingInit == WaitInit \/ RetrieveInit \/ DownInit

PollingNext == WaitNext \/ RetrieveNext \/ DownNext

PollingSpec == PollingInit /\ [][PollingNext]_vars

----------------------------------------------------------------------------
(* The rent request of Lium.up over the retrying transport                  *)

\* Lium.up has taken its snapshot and calls the transport with the POST
\* /executors/{id}/rent.
UpRentInit ==
    /\ impl \in Impls
    /\ t_pc = "attempt"
    /\ attempt = 0
    /\ history = << >>
    /\ sleeps = << >>
    /\ raised = "none"
    /\ returned = "none"
    /\ response = NoResponse
    /\ SessionsIdle
    /\ ExecAllIdle
    /\ StreamIdle
    /\ ThreadsIdle
    /\ RetrieveIdle
    /\ wr = NoCall
    /\ dn = NoCall
    /\ fn = NoCall
    /\ tr = NoCall
    /\ ed = NoCall
    /\ up = [pc |-> "rent", pod_name |-> "new", executor_id |-> "e1",
             initial |-> {}, response |-> "none", lists |-> << >>,
             naps |-> << >>, result |-> NoUpResult]

\* The transport has ended: its exception leaves up, its response is read
\* as UpRent reads it (`.json()` of the None that with_retry's wrapper
\* returns after its loop would raise AttributeError).
UpRentEnd ==
    /\ up.pc = "rent"
    /\ t_pc \in {"returned", "raised"}
    /\ IF t_pc = "raised"
       THEN up' = [up EXCEPT !.pc = "raised", !.result = UpError("API error")]
       ELSE IF returned = "None"
       THEN up' = [up EXCEPT !.pc = "raised",
                             !.result = UpError("AttributeError")]
       ELSE \E r \in RentResponses :
            up' = IF usable_id(r)
                  THEN [up EXCEPT !.pc = "returned", !.response = r,
                                  !.result = RentRecord(r)]
                  ELSE [up EXCEPT !.pc = "sleep", !.response = r]
    /\ UNCHANGED <<impl, t_vars, s_vars, ea_vars, st_vars, th, r_vars, c_vars, wr, dn,
                   fn>>

UpRentNext == HttpAttempt \/ BackoffSleep \/ UpRentEnd

UpRentSpec == UpRentInit /\ [][UpRentNext]_vars

----------------------------------------------------------------------------
(* Templates.retrieve of the celium client                                  *)
(* (src/celium/resources/templates/templates.py; AsyncTemplates.retrieve is *)
(* the same loop with awaits)                                               *)

\* `max_retries = 30 if wait_until_verified else 1`
max_retries(wait_until_verified) == IF wait_until_verified THEN 30 ELSE 1

\* `time.sleep(3)`, in seconds.
retry_delay == 3

\* The statuses a template is answered with.
TemplateStatuses == {"CREATED", "VERIFY_PENDING", "VERIFY_SUCCESS", "VERIFY_FAILED"}

\* `template.status in ["VERIFY_SUCCESS", "VERIFY_FAILED"]`
verified_mut(status) == status = "VERIFY_SUCCESS"
verified(status) == status \in {"VERIFY_SUCCESS", "VERIFY_FAILED"}

\* Templates.retrieve is called: no request made, no template parsed.
TemplateInit ==
    /\ impl = "celium"
    /\ TransportIdle
    /\ ExecAllIdle
    /\ StreamIdle
    /\ ThreadsIdle
    /\ RetrieveIdle
    /\ ssh_key_path = "None"
    /\ pods_cache = << >>
    /\ calls = << >>
    /\ open = {}
    /\ sftp = {}
    /\ up = NoCall
    /\ wr = NoCall
    /\ dn = NoCall
    /\ fn = NoCall
    /\ ed = NoCall
    /\ \E w \in BOOLEAN :
         tr = [pc |-> "loop", wait_until_verified |-> w, retries |-> 0,
               requests |-> 0, clock |-> 0, answer |-> "none",
               template |-> "none", result |-> "none"]

\* `while retries < max_retries`: one GET; a transport error leaves retrieve,
\* a verified template is returned, any other is kept for the next turn.
TemplateGet ==
    /\ tr.pc = "loop"
    /\ tr.retries < max_retries(tr.wait_until_verified)
    /\ \E a \in TemplateStatuses \cup {"error"} :
         tr' = IF a = "error"
               THEN [tr EXCEPT !.pc = "raised", !.requests = @ + 1,
                               !.answer = a]
               ELSE IF verified(a)
               THEN [tr EXCEPT !.pc = "returned", !.requests = @ + 1,
                               !.answer = a, !.template = a, !.result = a]
               ELSE [tr EXCEPT !.pc = "sleep", !.requests = @ + 1,
                               !.answer = a, !.template = a]
    /\ UNCHANGED <<impl, t_vars, s_vars, ea_vars, st_vars, th, r_vars, l_vars,
                   ed>>

\* `time.sleep(3); retries += 1`
TemplateSleep ==
    /\ tr.pc = "sleep"
    /\ tr' = [tr EXCEPT !.pc = "loop", !.retries = @ + 1,
                        !.clock = @ + retry_delay]
    /\ UNCHANGED <<impl, t_vars, s_vars, ea_vars, st_vars, th, r_vars, l_vars,
                   ed>>

\* The loop is left with the retries used up: `return template`.
TemplateGiveUp ==
    /\ tr.pc = "loop"
    /\ tr.retries >= max_retries(tr.wait_until_verified)
    /\ tr' = [tr EXCEPT !.pc = "returned", !.result = tr.template]
    /\ UNCHANGED <<impl, t_vars, s_vars, ea_vars, st_vars, th, r_vars, l_vars,
                   ed>>

TemplateNext == TemplateGet \/ TemplateSleep \/ TemplateGiveUp

TemplateSpec == TemplateInit /\ [][TemplateNext]_vars

----------------------------------------------------------------------------
(* Pods.easy_deploy of the celium client (src/celium/resources/pods/pods.py) *)
(* with Templates.create_from_image_or_dockerfile                           *)
(* (src/celium/resources/templates/templates.py) step by step               *)

\* The template the account already has, and the image it was made of.
OldTemplate == "t0"
OldImage == "img:latest"

\* The template a POST of this call creates.
NewTemplate == "t1"

\* The arguments of easy_deploy: a template id or none, an image (that of
\* the old template, or one no template has) or none, a dockerfile or none.
TemplateIds == {"None", OldTemplate}
DockerImages == {"None", OldImage, "other:latest"}
Dockerfiles == {"None", "Dockerfile"}

\* `{d_cred.username}/celium-template-{uuid.uuid4()}:latest`: a name no
\* template has yet.
generated_image == "celium-template-uuid:latest"

\* Pods.easy_deploy is called: `template = None`,
\* `is_one_time_template = False`.
EasyDeployInit ==
    /\ impl = "celium"
    /\ TransportIdle
    /\ ExecAllIdle
    /\ StreamIdle
    /\ ThreadsIdle
    /\ RetrieveIdle
    /\ ssh_key_path = "None"
    /\ pods_cache = << >>
    /\ calls = << >>
    /\ open = {}
    /\ sftp = {}
    /\ up = NoCall
    /\ wr = NoCall
    /\ dn = NoCall
    /\ fn = NoCall
    /\ tr = NoCall
    /\ \E t \in TemplateIds, i \in DockerImages, f \in Dockerfiles :
         ed = [pc |-> "executors", template_id |-> t, docker_image |-> i,
               dockerfile |-> f, image |-> "None", one_time |-> FALSE,
               template |-> "None", is_one_time_template |-> FALSE,
               created |-> {}, deleted |-> << >>, failed |-> "none",
               err |-> "none", result |-> "none"]

\* An exception of step s enters the handler of easy_deploy.
Caught(s) == [ed EXCEPT !.pc = "except", !.failed = s]

\* `executors = self.list_executors(...)`: the request fails, or no executor
\* matches (`return`), or the template is looked for.
EasyDeployExecutors ==
    /\ ed.pc = "executors"
    /\ \E answer \in {"error", "empty", "found"} :
         ed' = CASE answer = "error" -> Caught("executors")
                 [] answer = "empty" ->
                        [ed EXCEPT !.pc = "returned", !.result = "None"]
                 [] answer = "found" ->
                        [ed EXCEPT !.pc = IF ed.template_id = "None"
                                          THEN "prepare" ELSE "retrieve"]
    /\ UNCHANGED <<impl, t_vars, s_vars, ea_vars, st_vars, th, r_vars, l_vars,
                   tr>>

\* `template = self._client.templates.retrieve(template_id)`
EasyDeployRetrieve ==
    /\ ed.pc = "retrieve"
    /\ \E answer \in {"error", "ok"} :
         ed' = IF answer = "error" THEN Caught("template")
               ELSE [ed EXCEPT !.pc = "keys", !.template = ed.template_id]
    /\ UNCHANGED <<impl, t_vars, s_vars, ea_vars, st_vars, th, r_vars, l_vars,
                   tr>>

\* create_from_image_or_dockerfile up to the verification of the image: it
\* raises with neither an image nor a dockerfile, names the image itself
\* (a one-time template) when none is given, builds the dockerfile and
\* verifies the image; the credentials, the build and the verification can
\* each fail.
CreatePrepare ==
    /\ ed.pc = "prepare"
    /\ \E valid \in BOOLEAN :
         ed' = IF (ed.docker_image = "None" /\ ed.dockerfile = "None")
                    \/ ~valid
               THEN Caught("template")
               ELSE [ed EXCEPT !.pc = "lookup",
                               !.image = IF ed.docker_image = "None"
                                         THEN generated_image
                                         ELSE ed.docker_image,
                               !.one_time = (ed.docker_image = "None")]
    /\ UNCHANGED <<impl, t_vars, s_vars, ea_vars, st_vars, th, r_vars, l_vars,
                   tr>>

\* `templates = self._client.templates.list()` and the search for a template
\* of the same image, which is returned if there is one.
CreateLookup ==
    /\ ed.pc = "lookup"
    /\ \E answer \in {"error", "ok"} :
         ed' = IF answer = "error" THEN Caught("template")
               ELSE IF ed.image = OldImage
               THEN [ed EXCEPT !.pc = "keys", !.template = OldTemplate,
                               !.is_one_time_template = ed.one_time]
               ELSE [ed EXCEPT !.pc = "post"]
    /\ UNCHANGED <<impl, t_vars, s_vars, ea_vars, st_vars, th, r_vars, l_vars,
                   tr>>

\* The POST of the template and `self.retrieve(template.id,
\* wait_until_verified=True)`; only when both succeed does easy_deploy get
\* the template and the one-time flag.
CreatePost ==
    /\ ed.pc = "post"
    /\ \E post \in {"error", "ok"}, get \in {"error", "ok"} :
         ed' = IF post = "error" THEN Caught("template")
               ELSE IF get = "error"
               THEN [Caught("template") EXCEPT !.created = {NewTemplate}]
               ELSE [ed EXCEPT !.pc = "keys", !.created = {NewTemplate},
                               !.template = NewTemplate,
                               !.is_one_time_template = ed.one_time]
    /\ UNCHANGED <<impl, t_vars, s_vars, ea_vars, st_vars, th, r_vars, l_vars,
                   tr>>

\* `ssh_keys = self._client.ssh_keys.list()`: it fails, or the account has
\* no key (an Exception is raised), or it has one.
EasyDeployKeys ==
    /\ ed.pc = "keys"
    /\ \E answer \in {"error", "empty", "found"} :
         ed' = IF answer = "found" THEN [ed EXCEPT !.pc = "create"]
               ELSE Caught("keys")
    /\ UNCHANGED <<impl, t_vars, s_vars, ea_vars, st_vars, th, r_vars, l_vars,
                   tr>>

\* `return self.create(...)`
EasyDeployCreate ==
    /\ ed.pc = "create"
    /\ \E answer \in {"error", "ok"} :
         ed' = IF answer = "error" THEN Caught("create")
               ELSE [ed EXCEPT !.pc = "returned", !.result = "pod"]
    /\ UNCHANGED <<impl, t_vars, s_vars, ea_vars, st_vars, th, r_vars, l_vars,
                   tr>>

\* `if template and is_one_time_template`
cleanup(template, is_one_time_template) ==
    template # "None" /\ is_one_time_template

\* The handler: the one-time template is deleted, and `raise e`; a DELETE
\* that fails raises its own exception out of the handler.
EasyDeployExcept ==
    /\ ed.pc = "except"
    /\ IF cleanup(ed.template, ed.is_one_time_template)
       THEN \E answer \in {"error", "ok"} :
              ed' = [ed EXCEPT !.pc = "raised",
                               !.deleted = Append(@, ed.template),
                               !.err = IF answer = "error" THEN "delete"
                                       ELSE ed.failed]
       ELSE ed' = [ed EXCEPT !.pc = "raised", !.err = ed.failed]
    /\ UNCHANGED <<impl, t_vars, s_vars, ea_vars, st_vars, th, r_vars, l_vars,
                   tr>>

EasyDeployNext ==
    \/ EasyDeployExecutors
    \/ EasyDeployRetrieve
    \/ CreatePrepare
    \/ CreateLookup
    \/ CreatePost
    \/ EasyDeployKeys
    \/ EasyDeployCreate
    \/ EasyDeployExcept

EasyDeploySpec == EasyDeployInit /\ [][EasyDeployNext]_vars

----------------------------------------------------------------------------
(* Properties of exec_all and of the SSH sessions                          *)

\* The text of the exception in a failure record: "error" in lium_sdk.py,
\* "stderr" in lium_sdk_original.py.
ErrorText(r) == IF "error" \in DOMAIN r THEN r.error ELSE r.stderr

\* The four fields of the record exec returns, as result r carries them.
CarriesExecResult(r, out) ==
    /\ {"stdout", "stderr", "exit_code", "success"} \subseteq DOMAIN r
    /\ r.stdout = out.stdout
    /\ r.exit_code = out.exit_code
    /\ r.success = (out.exit_code = 0)

\* C6: exec_all returns its results in the order of the input pods, whatever
\* the order in which the workers finish: result i is what the command run
\* on pods[i] produced (its output and exit code, or its exception).
C6_ResultsInInputOrder ==
    ea_pc = "returned"
        => /\ Len(results) = Len(pods)
           /\ \A k \in 1..Len(pods) :
                /\ calls[k].pod = pods[k]
                /\ IF calls[k].pc = "returned"
                   THEN CarriesExecResult(results[k], calls[k].out)
                   ELSE /\ results[k].success = FALSE
                        /\ ErrorText(results[k]) = calls[k].out.err

C6_Witness ==
    /\ ea_pc = "returned"
    /\ Len(pods) >= 2
    /\ order[1] # 1
    /\ results[1] # results[order[1]]

Failing(call) == call.pc = "raised" \/ call.out.exit_code # 0

C8_RecordsTaggedWithPodId ==
    ea_pc = "returned"
        => \A k \in 1..Len(pods) : results[k].pod = Str(pods[k].id)

\* The worker bound of a batch: the max_workers asked for (by default the cap
\* of the client: 10 in lium_sdk.py, 32 in lium_sdk_original.py), and no more
\* than the number of pods.
WorkerBound ==
    Min(IF impl = "orig" /\ max_workers = NoneWorkers THEN 32 ELSE max_workers,
        Len(pods))

\* C9: during exec_all neither the number of SSH sessions open at once nor
\* the number of targets being executed exceeds the worker bound.
C9_ConcurrencyBounded ==
    ea_pc \in {"running", "returned"}
        => /\ Cardinality(open) <= WorkerBound
           /\ Cardinality(Active) <= WorkerBound

C9_Witness ==
    /\ ea_pc = "running"
    /\ WorkerBound < Len(pods)
    /\ Cardinality(open) = WorkerBound
    /\ \E c \in DOMAIN calls : calls[c].pc = "queued"

\* C10: a session opened by exec, scp, upload or download is closed by the
\* time the call returns or raises, so no session is open once every call
\* made so far has ended.
C10_SessionsClosed ==
    /\ \A c \in DOMAIN calls : Finished(c) => c \notin open /\ c \notin sftp
    /\ (\A c \in DOMAIN calls : Finished(c)) => open = {}

C10_Witness ==
    /\ Len(calls) = MaxCalls
    /\ \A c \in DOMAIN calls : Finished(c)
    /\ \E c \in DOMAIN calls :
        /\ calls[c].pc = "raised"
        /\ calls[c].out.err = "SFTP transfer failed"
    /\ \E c \in DOMAIN calls :
        /\ calls[c].pc = "returned"
        /\ calls[c].op = "exec"
        /\ calls[c].out.exit_code # 0

\* C11: a command that ends with a non-zero exit code does not make exec
\* raise: exec returns a record with stdout, stderr, exit_code and success,
\* and success is true exactly when exit_code is 0.  An exec that raised did
\* so on an exception, never on an exit code.
C11_NonZeroExitReturns ==
    \A c \in DOMAIN calls :
        calls[c].op = "exec" =>
            /\ calls[c].out.kind = "result" =>
                    /\ calls[c].pc \in {"closing", "returned"}
                    /\ {"stdout", "stderr", "exit_code", "success"}
                            \subseteq DOMAIN calls[c].out
                    /\ calls[c].out.success <=> (calls[c].out.exit_code = 0)
            /\ calls[c].pc = "returned" => calls[c].out.kind = "result"
            /\ calls[c].pc = "raised" => calls[c].out.kind = "error"

C11_Witness ==
    \E c \in DOMAIN calls :
        /\ calls[c].op = "exec"
        /\ calls[c].pc = "returned"
        /\ calls[c].out.exit_code # 0
        /\ calls[c].out.success = FALSE

----------------------------------------------------------------------------
(* Properties of the remote operations, stream_exec included               *)

\* The pod arguments that denote a listed pod whose SSH command is absent.
NoSshInput(p) ==
    IF p.kind = "PodInfo" THEN p.ssh_cmd = "None"
    ELSE \E j \in DOMAIN Fleet :
            /\ p.id \in {Fleet[j].id, Fleet[j].name, Fleet[j].huid}
            /\ Fleet[j].ssh_cmd = "None"

\* The operations that run over an SSH session (scp of
\* lium_sdk_original.py has an empty body).
OverSsh(i, op) == ~(i = "orig" /\ op = "scp")

Count(seq, x) == Cardinality({k \in DOMAIN seq : seq[k] = x})

\* The generator of call c ran to its end (StopIteration), as opposed to an
\* exception leaving it.
Exhausted(c) ==
    /\ calls[c].op = "stream_exec"
    /\ calls[c].pc \in {"closing", "returned"}
    /\ calls[c].out.kind = "None"

StreamSafety ==
    \A c \in DOMAIN calls :
        calls[c].op = "stream_exec" =>
            /\ Exhausted(c) =>
                    /\ channel[c].closed
                    /\ channel[c].out = 0
                    /\ channel[c].err = 0
                    /\ Count(yielded[c], "stdout") = produced[c].out
                    /\ Count(yielded[c], "stderr") = produced[c].err
            /\ Finished(c) => c \notin open

\* C13: the sequence stream_exec yields ends only when the channel is closed
\* with no stdout or stderr chunk pending, so every chunk received before the
\* close has been yielded by then; once the remote command has exited the
\* sequence does end, and the SSH session is closed when it has.
C13_StreamEnds ==
    /\ []StreamSafety
    /\ \A c \in 1..MaxStreamCalls :
            (c \in DOMAIN channel /\ channel[c].closed)
                ~> (/\ c \in DOMAIN calls
                    /\ calls[c].pc = "returned"
                    /\ c \notin open)

C13_Witness ==
    \E c \in DOMAIN calls :
        /\ calls[c].op = "stream_exec"
        /\ calls[c].pc = "returned"
        /\ produced[c].out >= 1
        /\ produced[c].err >= 1
        /\ Len(yielded[c]) = 2

----------------------------------------------------------------------------
(* Properties of pod resolution and of the pod cache                       *)

\* The three keys a pod is cached and looked up under.
KeysOf(p) == {p.id, p.name, p.huid}

ListKeys(list) == UNION {KeysOf(list[j]) : j \in DOMAIN list}

\* C14: _resolve_pod given a PodInfo returns that same value, in the step of
\* the call itself: no GET /pods is made, the cache is neither read nor
\* changed, however many calls came before.
C14_PodInfoReturnedAsIs ==
    [][\A t \in Threads :
        (/\ th'[t] # th[t]
         /\ th'[t].op = "resolve"
         /\ th'[t].arg.kind = "PodInfo")
            => /\ th'[t].pc = "returned"
               /\ th'[t].result.kind = "pod"
               /\ th'[t].result.pod = th'[t].arg
               /\ th'[t].fetches = 0
               /\ ~th'[t].touched
               /\ pods_cache' = pods_cache]_vars

C14_Witness ==
    \E t \in Threads :
        /\ th[t].op = "resolve"
        /\ th[t].arg = Fleet[1]
        /\ th[t].pc = "returned"
        /\ th[t].result.pod = Fleet[1]
        /\ th[t].done = 2
        /\ {"p1", "n1"} \subseteq DOMAIN pods_cache
        /\ pods_cache["n1"] = Twin

\* C15: _resolve_pod given a string that is not a key of the cache makes
\* exactly one pod-list refresh; it returns a pod of the refreshed list that
\* has the string as id, name or huid when there is one, and otherwise
\* raises the not-found error naming the string, without a second refresh.
C15_OneRefreshOnMiss ==
    \A t \in Threads :
        (th[t].op = "resolve" /\ th[t].missed) =>
            /\ th[t].fetches <= 1
            /\ Ended(t) =>
                /\ th[t].fetches = 1
                /\ th[t].result.err # "API error" =>
                    LET x == th[t].arg.id
                        named == {j \in DOMAIN th[t].fetched :
                                    x \in KeysOf(th[t].fetched[j])}
                    IN  IF named # {}
                        THEN /\ th[t].pc = "returned"
                             /\ \E j \in named :
                                    th[t].result.pod = th[t].fetched[j]
                        ELSE /\ th[t].pc = "raised"
                             /\ th[t].result.err = "Pod not found"
                             /\ th[t].result.ident = x

C15_Witness ==
    \E t, u \in Threads :
        /\ th[t].op = "resolve"
        /\ th[t].arg = Str("zz")
        /\ th[t].pc = "raised"
        /\ th[t].result.ident = "zz"
        /\ th[t].fetches = 1
        /\ th[t].fetched = Fleet
        /\ th[u].op = "resolve"
        /\ th[u].arg = Str("n1")
        /\ th[u].missed
        /\ th[u].pc = "returned"
        /\ th[u].result.pod = Fleet[1]

\* Thread t ends, in this step, an operation that refreshed the cache.
RefreshDone(t) ==
    /\ th[t].pc \in {"assign", "name", "huid"}
    /\ th'[t].pc \in {"returned", "raised"}

\* C16 (as stated): right after a refresh, every pod p of the fetched list
\* is what the cache resolves p's id, p's name and p's huid to.
C16_FreshRoundTrip ==
    [][\A t \in Threads :
        RefreshDone(t) =>
            \A j \in DOMAIN th'[t].fetched :
                \A k \in KeysOf(th'[t].fetched[j]) :
                    /\ k \in DOMAIN pods_cache'
                    /\ pods_cache'[k] = th'[t].fetched[j]]_vars

\* Pod j of the list shares none of its three keys with another pod of it.
Unshared(list, j) ==
    \A m \in DOMAIN list :
        m # j => KeysOf(list[m]) \cap KeysOf(list[j]) = {}

\* C16 (amended): right after a refresh that no other refresh overlapped,
\* every pod p of the fetched list that shares no key with another pod of
\* the list is what the cache resolves p's id, name and huid to.
C16_FreshRoundTripUnshared ==
    [][\A t \in Threads :
        (RefreshDone(t) /\ ~th'[t].overlapped) =>
            \A j \in DOMAIN th'[t].fetched :
                Unshared(th'[t].fetched, j) =>
                    \A k \in KeysOf(th'[t].fetched[j]) :
                        /\ k \in DOMAIN pods_cache'
                        /\ pods_cache'[k] = th'[t].fetched[j]]_vars

C16_Witness ==
    \E t \in Threads :
        /\ th[t].op = "ps"
        /\ th[t].pc = "returned"
        /\ th[t].fetched = Fleet
        /\ ~th[t].overlapped
        /\ DOMAIN pods_cache = ListKeys(Fleet)
        /\ pods_cache["p2"] = Fleet[2]
        /\ pods_cache["n2"] = Fleet[2]
        /\ pods_cache["h2"] = Fleet[2]

Refreshed(t) ==
    /\ Ended(t)
    /\ th[t].fetches = 1
    /\ th[t].result.err # "API error"

\* C18: once two refreshes of the same client have both ended, however
\* they interleaved, the cache is the complete cache one of them alone
\* builds from its own fetch: no partial update, no mixture of the two.
C18_LastWriterWins ==
    (impl = "sdk" /\ \A t \in Threads : Refreshed(t))
        => \E t \in Threads : pods_cache = ps_cache(th[t].fetched)

\* Thread t's fetch fails in this step: the request of its ps() raises.
FetchFails(t) ==
    /\ th[t].pc = "fetch"
    /\ th'[t].pc = "raised"
    /\ th'[t].result = Raised("API error", "")

\* Thread t is past a successful fetch, at one of the cache writes of ps().
Writing(t) == th[t].pc \in {"assign", "name", "huid"} /\ th[t].fetches > 0

\* C34: a pod-list fetch that fails leaves the pod cache as it was before
\* the call; the cache changes only in a write of a ps() whose fetch has
\* succeeded.
C34_FailedFetchKeepsCache ==
    [][/\ \A t \in Threads : FetchFails(t) => pods_cache' = pods_cache
       /\ pods_cache' # pods_cache =>
            \E t \in Threads : Writing(t) /\ th'[t] # th[t]]_vars

\* A ps() has failed on a client that holds a cache.
C34_Witness ==
    /\ impl = "sdk"
    /\ pods_cache # << >>
    /\ \E t \in DOMAIN th :
        /\ th[t].op = "ps"
        /\ th[t].pc = "raised"
        /\ th[t].result = Raised("API error", "")

----------------------------------------------------------------------------
(* Properties of Pods.retrieve                                             *)

\* No GET request of the call was answered with status RUNNING.
NeverRunning == \A k \in DOMAIN polls : polls[k] # "RUNNING"

\* The number of 5-second sleeps that make up T seconds rounded up to a
\* multiple of 5.
SleepsFor(T) == IF T <= 0 THEN 0 ELSE (T + 4) \div 5

\* C19: retrieve with wait_until_running on a pod that never reaches RUNNING
\* returns the pod its last request observed, after one 5-second sleep per
\* 5 seconds of the timeout rounded up (two sleeps for a timeout of 10).
C19_TimeoutReturnsLastPoll ==
    (wait_until_running /\ NeverRunning /\ r_pc = "returned")
        => /\ r_pod # NonePod
           /\ r_pod = Pod(polls[Len(polls)], Len(polls))
           /\ slept = SleepsFor(timeout)
           /\ timeout = 10 => slept = 2

\* C20: retrieve without wait_until_running returns the pod of its first
\* request, whatever its status, and makes no other request and no sleep.
C20_NoWaitReturnsFirstPoll ==
    (~wait_until_running /\ r_pc = "returned")
        => /\ r_pod # NonePod
           /\ Len(polls) = 1
           /\ r_pod = Pod(polls[1], 1)
           /\ slept = 0

\* C21: Pods.create sends its rent request before any request of retrieve
\* and returns what retrieve returns; when the rent request raises, create
\* raises and no request of retrieve is sent.
C21_RentThenRetrieve ==
    rent # "none" =>
        /\ polls # << >> => rent = "ok"
        /\ rent = "raised" => r_pc = "raised" /\ polls = << >>
        /\ r_pc = "returned" =>
            /\ rent = "ok"
            /\ r_pod = Pod(polls[Len(polls)], Len(polls))

C21_Witness ==
    /\ rent = "ok"
    /\ r_pc = "returned"
    /\ r_pod.status = "PENDING"

\* The requests made inside the loop: all but the one before it.
LoopPolls == IF polls = << >> THEN 0 ELSE Len(polls) - 1

\* What holds of a retrieve that waits, at every moment: a request of the
\* loop answered RUNNING is the last one and has returned its pod; a pod
\* that is not RUNNING is returned only with the elapsed counter at the
\* timeout or beyond; the counter is 5 per poll that looped; the loop has
\* polled at most ceil(timeout / 5) times.
WaitingRetrieve ==
    wait_until_running =>
        /\ \A k \in 2..Len(polls) :
            polls[k] = "RUNNING" =>
                /\ k = Len(polls)
                /\ r_pc = "returned"
                /\ r_pod = Pod("RUNNING", k)
        /\ r_pc = "returned" /\ r_pod.status # "RUNNING" =>
            elapsed_time >= timeout
        /\ elapsed_time = poll_interval * slept
        /\ slept <= LoopPolls
        /\ LoopPolls <= SleepsFor(timeout)

\* C32: retrieve with wait_until_running returns at the first poll of the
\* loop that observes RUNNING and polls no more, returns a pod that is not
\* RUNNING only once its elapsed counter (5 per poll) has reached the
\* timeout, and so ends after at most ceil(timeout / 5) polls of the loop.
C32_RetrieveTerminates ==
    /\ []WaitingRetrieve
    /\ <>(r_pc \in {"returned", "raised"})

\* A wait that used every poll its timeout allows.
C32_Witness ==
    /\ wait_until_running
    /\ r_pc = "returned"
    /\ timeout = MaxTimeout
    /\ LoopPolls = SleepsFor(MaxTimeout)
    /\ r_pod.status = "PENDING"

\* C36: retrieve returns a pod for every timeout, never None; for a timeout
\* of 0 or less it returns the pod it observed.
C36_NeverNone == r_pc = "returned" => r_pod # NonePod

----------------------------------------------------------------------------
(* Properties of Lium.up                                                   *)

\* A pod of the requested name is in one of the lists up fetched after the
\* rent request.
NameSeen ==
    \E k \in DOMAIN up.lists : \E j \in DOMAIN up.lists[k] :
        up.lists[k][j].name = up.pod_name

\* C22: up re-fetches the pod list at most twice after the rent request;
\* when the rent response has no usable id and no re-fetched list has a pod
\* of the requested name, up returns a record that holds the requested
\* name, the executor id and nothing else.
C22_BoundedFallback ==
    /\ Len(up.lists) <= 2
    /\ (up.pc = "returned" /\ ~usable_id(up.response) /\ ~NameSeen)
        => /\ up.result.kind = "placeholder"
           /\ {"name", "executor_id"} \subseteq up.result.keys
           /\ up.result.name = up.pod_name
           /\ up.result.executor_id = up.executor_id
           /\ up.result.id \in {"", up.pod_name}

\* C23: a record up returns from a fallback is the record of a pod that
\* has the requested name and whose name was not in the snapshot taken
\* before the rent request.
C23_FallbackReturnsNewPod ==
    (up.pc = "returned" /\ up.result.kind = "pod")
        => /\ up.result.name = up.pod_name
           /\ up.pod_name \notin up.initial

----------------------------------------------------------------------------
(* Properties of Lium.wait_ready                                            *)

\* The pod the wait is for, as poll k listed it: its index, 0 if absent.
Listed(k) == by_id(wr.seen[k].list, wr.pod_id)

\* Poll k got an answer and saw the pod with status RUNNING.
SawRunning(k) ==
    /\ wr.seen[k] # Failure
    /\ Listed(k) # 0
    /\ upper(wr.seen[k].status) = "RUNNING"

\* Poll k saw the pod RUNNING and with an SSH connection command.
SawReachable(k) ==
    SawRunning(k) /\ ~no_ssh_cmd(wr.seen[k].list[Listed(k)])

\* The wait has ended with True at poll k.
SucceededAt(k) ==
    k = Len(wr.seen) /\ wr.pc = "returned" /\ wr.result = WaitValue(TRUE)

\* The wait raises for no reason but an exception of a request or, in
\* lium_sdk_original.py, an argument that names no pod; a wait that ended
\* with False has used up its timeout.
WaitEndings ==
    /\ wr.pc = "raised" =>
        \/ wr.lookup \in {"missing", "error"}
        \/ Len(wr.seen) > 0 /\ wr.seen[Len(wr.seen)] = Failure
    /\ wr.pc = "returned" /\ wr.result = WaitValue(FALSE) =>
        wr.waited >= wr.timeout

\* C24 as the specification states it: a poll that observes status RUNNING
\* ends the wait with success, every other poll loops, and the timeout ends
\* the wait with false instead of raising.
C24_RunningEndsWait ==
    wr.pc # "none" =>
        /\ \A k \in DOMAIN wr.seen :
            wr.seen[k] # Failure => (SawRunning(k) <=> SucceededAt(k))
        /\ WaitEndings

\* C24: a poll ends the wait with True exactly when it lists the pod with
\* status RUNNING (in any letter case) and with an SSH connection command;
\* every other answered poll is followed by a sleep and the next test of the
\* timeout; once the timeout has elapsed the wait returns False and does not
\* raise.
C24_ReachableEndsWait ==
    wr.pc # "none" =>
        /\ \A k \in DOMAIN wr.seen :
            wr.seen[k] # Failure => (SawReachable(k) <=> SucceededAt(k))
        /\ wr.pc = "returned" =>
            \/ wr.result = WaitValue(FALSE)
            \/ Len(wr.seen) > 0 /\ SucceededAt(Len(wr.seen))
        /\ WaitEndings

\* A wait that looped on a pod seen RUNNING without an SSH command, looped
\* again and ran out of time.
C24_Witness ==
    /\ wr.pc = "returned"
    /\ Len(wr.seen) >= 2
    /\ SawRunning(1)
    /\ ~SawRunning(2)
    /\ wr.result = WaitValue(FALSE)

\* C25: on success wait_ready returns the ready pod, a record with the name
\* and the id of the pod, and on timeout a falsy value.
C25_ReturnsReadyPod ==
    wr.pc = "returned" =>
        IF \E k \in DOMAIN wr.seen : SawReachable(k)
        THEN /\ wr.result.kind = "pod"
             /\ wr.result.value.id = wr.pod_id
        ELSE wr.result = WaitValue(FALSE)

----------------------------------------------------------------------------
(* Properties of the pure helpers                                           *)

\* The properties of a PodInfo have been read.
PropertiesRead == fn.pc = "done" /\ fn.op = "PodInfo"

\* C26: the derived properties never raise; without an SSH connection
\* command host and username are None and the port is 22, a command without
\* "-p" gives port 22, and "ssh user@host -p 2222" gives host "host",
\* username "user" and port 2222.
C26_DerivedPropertiesTotal ==
    PropertiesRead =>
        /\ fn.out.ssh_port.ok
        /\ fn.arg = NoneStr =>
            /\ fn.out.host = NoneStr
            /\ fn.out.username = NoneStr
            /\ fn.out.ssh_port = Value(22)
        /\ fn.arg # NoneStr /\ Find(fn.arg, <<"-", "p">>, 1) = 0 =>
            fn.out.ssh_port = Value(22)
        /\ fn.arg = ExampleCmd =>
            /\ fn.out.host = <<"h", "o", "s", "t">>
            /\ fn.out.username = <<"u", "s", "e", "r">>
            /\ fn.out.ssh_port = Value(2222)

\* The words of a list.
Words(list) == {list[k] : k \in DOMAIN list}

Forms(s, n) ==
    CASE n = 1 -> {<<"R", "T", "X">> \o rtx_at(s, j) : j \in 1..Len(s)}
                    \ {<<"R", "T", "X">>}
      [] n = 2 -> {code_at(s, j, {"H", "B", "L"}, TRUE) : j \in 1..Len(s)}
                    \ {<< >>}
      [] n = 3 -> {<<"A">> \o Tail(code_at(s, j, {"A"}, FALSE)) :
                        j \in {m \in 1..Len(s) :
                                code_at(s, m, {"A"}, FALSE) # << >>}}

\* The result the claim gives for descriptor s, as a set of admitted values.
GpuTypes(s) ==
    IF Forms(s, 1) # {} THEN Forms(s, 1)
    ELSE IF Forms(s, 2) # {} THEN Forms(s, 2)
    ELSE IF Forms(s, 3) # {} THEN Forms(s, 3)
    ELSE IF s = << >> THEN {Unknown}
    ELSE {LastToken(s)}

\* C30: extract_gpu_type returns the short form of the first pattern, in
\* the order RTX, H/B/L code, A code, that matches anywhere in the
\* descriptor; without a match it returns the last whitespace-delimited
\* token, and "Unknown" for the empty descriptor.
C30_FirstPatternWins ==
    fn.pc = "done" /\ fn.op = "extract_gpu_type" =>
        /\ fn.out.ok
        /\ fn.out.value \in GpuTypes(fn.arg)

----------------------------------------------------------------------------
(* Properties of Lium.down, and of transport errors while polling           *)

\* The executor the decommission request is owed to: the owner of the
\* resolved pod, the executor given where no pod is (lium_sdk_original.py),
\* the id passed to Pods.delete.
Owning ==
    IF impl = "celium" THEN dn.arg.id
    ELSE IF dn.arg = NoPod THEN dn.given
    ELSE dn.owner

ResolvesFromCache(p) ==
    \A key \in KeysOf(p) :
        /\ key \in DOMAIN pods_cache
        /\ sdk_resolve_pod(Str(key), pods_cache, "error") = Resolved(p, pods_cache)

IsUserAtHost(token) ==
    \E q \in 2..(Len(token) - 1) :
        /\ token[q] = "@"
        /\ \A k \in DOMAIN token : k # q => token[k] # "@"
IsSshForm(cmd) ==
    /\ cmd # NoneStr
    /\ LET parts == Tokens(cmd)
       IN  /\ Len(parts) \in {2, 4}
           /\ parts[1] = <<"s", "s", "h">>
           /\ IsUserAtHost(parts[2])
           /\ Len(parts) = 4 =>
                /\ parts[3] = <<"-", "p">>
                /\ parts[4] # << >>
                /\ \A k \in DOMAIN parts[4] : IsDigit(parts[4][k])

\* C37: for an SSH command of the form `ssh <user>@<host> [-p <port>]`,
\* rsync builds its command whenever ssh_connection parses an endpoint, and
\* for the same user, host and port (22 when there is no -p).
C37_SameEndpoint ==
    fn.pc = "done" /\ fn.op = "endpoint" /\ IsSshForm(fn.arg)
        /\ fn.out.connection.ok
        => fn.out.rsync = fn.out.connection

\* C38: exec_all of an empty list returns an empty list; it raises nothing,
\* starts no worker and opens no session.
C38_EmptyListReturnsEmpty ==
    pods = << >> /\ ea_pc # "call"
        => ea_pc = "returned" /\ results = << >> /\ calls = << >> /\ open = {}

\* The statuses that end the verification of a template.
Settled == {"VERIFY_SUCCESS", "VERIFY_FAILED"}

\* What holds of one Templates.retrieve at every moment: at most 30 GETs,
\* the k-th made 3(k - 1) seconds after the call; a call that does not wait
\* ends after exactly one GET; the template returned is the last one
\* observed, and it is settled unless every retry was used.
VerificationPolls ==
    tr.pc # "none" =>
        /\ tr.requests <= max_retries(TRUE)
        /\ tr.pc = "loop" => tr.clock = retry_delay * tr.requests
        /\ tr.pc \in {"returned", "raised"} /\ ~tr.wait_until_verified
              => tr.requests = 1
        /\ tr.pc = "returned" =>
              /\ tr.result = tr.answer
              /\ tr.result \in Settled
                    \/ tr.requests = max_retries(tr.wait_until_verified)

\* C39: Templates.retrieve makes at most 30 GETs, one every 3 seconds, when
\* it waits for the verification and exactly one when it does not; it returns
\* at the first answer whose status is VERIFY_SUCCESS or VERIFY_FAILED, and
\* the last template observed once the retries are used up.
C39_VerificationBounded ==
    /\ []VerificationPolls
    /\ [][tr'.requests = tr.requests + 1 /\ tr'.answer \in Settled
            => tr'.pc = "returned" /\ tr'.result = tr'.answer]_vars

\* Thirty GETs, none of them settled: the last template is returned.
C39_Witness ==
    /\ tr.pc = "returned"
    /\ tr.wait_until_verified
    /\ tr.requests = 30
    /\ tr.clock = 90
    /\ tr.result = "VERIFY_PENDING"

\* The template of easy_deploy is one this call created as a one-time
\* template, and the step that failed is the SSH-key lookup or the creation
\* of the pod.
OwnOneTime ==
    /\ ed.template \in ed.created
    /\ ed.one_time
    /\ ed.failed \in {"keys", "create"}

\* The only template easy_deploy deletes is its own one-time template after
\* a later step failed, and it deletes it once; a template given by id or
\* found for the image is never deleted, nor is any on a return.
DeletesOnlyOwn ==
    ed.pc # "none" =>
        /\ ed.deleted # << >> => OwnOneTime /\ ed.deleted = <<ed.template>>
        /\ ed.pc = "raised" /\ OwnOneTime => ed.deleted = <<ed.template>>
        /\ \A k \in DOMAIN ed.deleted : ed.deleted[k] # OldTemplate
        /\ ed.pc = "returned" => ed.deleted = << >>

\* C40: easy_deploy deletes a template only when this call created it as a
\* one-time template and the SSH-key lookup or the pod creation failed; it
\* then deletes it exactly once and raises the exception of the failed step
\* again.  A template given by template_id or found for the image is never
\* deleted, and none is deleted on success or when no executor matches.
C40_CleanupOnFailure ==
    /\ DeletesOnlyOwn
    /\ ed.pc = "raised" => ed.err = ed.failed

\* A step in which a request of a poll or of a refresh raised: the request
\* of Pods.retrieve got no answer, wait_ready saw its ps() fail, the
\* _resolve_pod of down or of wait_for_pod_ready had its ps() fail.
RetrieveFailed == r_pc \in {"first", "poll"} /\ r_pc' # r_pc /\ polls' = polls
WaitFailed ==
    \/ /\ wr.pc = "poll"
       /\ wr'.seen = Append(wr.seen, Failure)
    \/ /\ wr.pc = "resolve"
       /\ wr'.lookup = "error"
DownFailed == dn.pc = "resolve" /\ dn'.http = "error"

\* C27: a transport error raised while _resolve_pod refreshes the pod list,
\* while wait_ready polls or while Pods.retrieve polls leaves the operation
\* as that error; no result is returned in its place, no not-found error is
\* raised for it, and the operation makes no further step.
C27_TransportErrorPropagates ==
    [][/\ RetrieveFailed => r_pc' = "raised" /\ r_pod' = r_pod
       /\ WaitFailed => wr'.pc = "raised" /\ wr'.result = WaitError("API error")
       /\ DownFailed =>
            /\ dn'.pc = "raised"
            /\ dn'.result = DownError("API error")
            /\ dn'.requests = << >>
       /\ r_pc = "raised" => UNCHANGED r_vars
       /\ wr.pc = "raised" => wr' = wr
       /\ dn.pc = "raised" => dn' = dn]_vars

\* The second poll of a wait has raised.
C27_Witness ==
    /\ wr.pc = "raised"
    /\ Len(wr.seen) = 2
    /\ wr.seen[2] = Failure
    /\ wr.result = WaitError("API error")

----------------------------------------------------------------------------
(* Properties of the rent request of Lium.up                                *)

\* C33: one call of Lium.up submits the rent request to the server at most
\* once, whatever responses or connection failures the server produces.
C33_RentSubmittedOnce == up.pc # "none" => Len(history) <= 1

====
